---- MODULE Spec2Model ----
(***************************************************************************)
(* vviz: the state-synchronisation protocol between the control side       *)
(* (manager.rs: Manager, Shared and the Ui* handles) and the presentation  *)
(* side (gui.rs: GuiLoop, GuiData), over std::sync::mpsc channels (local   *)
(* mode, app.rs) or over two relay threads and a websocket (remote mode,   *)
(* manager.rs new_remote and remote_client.rs).                            *)
(*                                                                         *)
(* Values.  Every Rust value is written as the string of its Display form *)
(* ("true", "1", "NaN", "Foo"), so that values of different Rust types can *)
(* sit in the same field; the concrete Rust type of a component is kept in *)
(* its `type` field, which is what downcast_ref / downcast_mut look at.    *)
(* A value of the user's enum type T is written "Options::Foo"; its        *)
(* Display form is "Foo" (to_string / from_str below).                       *)
(***************************************************************************)
EXTENDS Integers, Sequences, FiniteSets, TLC

-----------------------------------------------------------------------------
(* Bounds of the model *)

\* number of add_* calls (each returns one handle) the control closure makes
MaxHandles == 2
\* number of add_widget2, place_entity, place_entity_at and
\* update_scene_pose_entity calls, and of messages from add_widget3
MaxCalls == 3
\* number of user interactions (click, toggle, drag, selection) on the window
MaxEvents == 2

\* component labels the control closure uses
Labels == {"a"}

-----------------------------------------------------------------------------
(* Values and their Rust semantics *)

\* f32::NAN / f64::NAN
NaN == "NaN"

\* PartialEq of the Rust value types: `==` on bool, integers, floats and
\* the derived PartialEq of the user's enum.  NaN is not equal to itself.
ValueNe(x, y) == x = NaN \/ y = NaN \/ x # y

\* order of the numeric values used by sliders
NumOf(s) == CASE s = "0" -> 0 [] s = "1" -> 1 [] s = "2" -> 2 [] s = "3" -> 3

\* the number types T: common::Number the control closure instantiates
NumberTypes == {"i32", "f64"}

\* Var<T>, RangedVar<T>: the concrete type a downcast has to name
VarType(T) == CASE T = "bool" -> "Var<bool>"
                [] T = "i32" -> "Var<i32>"
                [] T = "f64" -> "Var<f64>"
RangedVarType(T) == CASE T = "i32" -> "RangedVar<i32>"
                      [] T = "f64" -> "RangedVar<f64>"

\* enum Options { Foo, Bar } with strum's Display, EnumString, VariantNames
OptionsT == {"Options::Foo", "Options::Bar"}
VARIANTS == <<"Foo", "Bar">>
\* enum Manipulation { Position, Orientation } with the same derives
ManipulationT == {"Manipulation::Position", "Manipulation::Orientation"}
MANIPULATION_VARIANTS == <<"Position", "Orientation">>
to_string(v) ==
    CASE v = "Options::Foo" -> "Foo" [] v = "Options::Bar" -> "Bar"
      [] v = "Manipulation::Position" -> "Position"
      [] v = "Manipulation::Orientation" -> "Orientation"
ParseError == "Err(VariantNotFound)"
\* (from_str_first: what a parser that always yields the first variant would do)
from_str_first(s) == "Options::Foo"
from_str(s) == IF \E v \in OptionsT : to_string(v) = s
              THEN CHOOSE v \in OptionsT : to_string(v) = s
              ELSE ParseError
from_str_manipulation(s) ==
    IF \E v \in ManipulationT : to_string(v) = s
    THEN CHOOSE v \in ManipulationT : to_string(v) = s
    ELSE ParseError

\* what the control closure passes to add_bool, add_number, add_ranged_value, add_enum
BoolInputs == {"true", "false"}
NumberInputs == {[T |-> "i32", value |-> "1"], [T |-> "f64", value |-> NaN]}
RangedInputs == {[T |-> "i32", value |-> "1", min_max |-> <<"0", "1">>],
                 [T |-> "i32", value |-> "1", min_max |-> <<"1", "2">>]}
EnumInputs == OptionsT

-----------------------------------------------------------------------------
(* Components: common.rs *)

\* LinkedHashMap::get on a label that was never inserted
NoComp == [type |-> "None"]

Button(pressed) == [type |-> "Button", pressed |-> pressed]
Var(T, value) == [type |-> VarType(T), value |-> value]
RangedVar(T, value, min_max) ==
    [type |-> RangedVarType(T), value |-> value, min_max |-> min_max]
EnumStringRepr(value, values) ==
    [type |-> "EnumStringRepr", value |-> value, values |-> values]

IsRanged(c) == c.type \in {RangedVarType(T) : T \in NumberTypes}
HasValue(c) == c.type \notin {"None", "Button"}

\* LinkedHashMap::insert: insert-or-replace on the label
\* (InsertIfAbsent: what an insert that kept an existing entry would do)
InsertIfAbsent(map, label, c) ==
    IF map[label] = NoComp THEN [map EXCEPT ![label] = c] ELSE map
Insert(map, label, c) == [map EXCEPT ![label] = c]

\* LinkedHashMap::remove: nothing happens when the label is absent
\* (RemoveAll: what a remove that cleared the map would do)
RemoveAll(map, label) == [l \in DOMAIN map |-> NoComp]
Remove(map, label) == [map EXCEPT ![label] = NoComp]

-----------------------------------------------------------------------------
(* Widgets and their entities: common.rs, entities.rs *)

\* linked_hash_map::LinkedHashMap as the sequence of its entries, oldest first
LhmHas(m, k) == \E i \in 1..Len(m) : m[i].key = k
LhmGet(m, k) == m[CHOOSE i \in 1..Len(m) : m[i].key = k].value
LhmRemove(m, k) == SelectSeq(m, LAMBDA e : e.key # k)
\* LinkedHashMap::insert: an entry whose key is already there gets the new
\* value and moves to the end
\* (LhmInsertKeepsOld: what an insert that kept an existing entry would do)
LhmInsertKeepsOld(m, k, v) ==
    IF LhmHas(m, k) THEN m ELSE Append(m, [key |-> k, value |-> v])
LhmInsert(m, k, v) == Append(LhmRemove(m, k), [key |-> k, value |-> v])
\* writing through LinkedHashMap::get_mut: the entry keeps its place
LhmSet(m, k, v) ==
    [i \in 1..Len(m) |-> IF m[i].key = k THEN [key |-> k, value |-> v] ELSE m[i]]

\* entities::NamedEntity3
NamedEntity3(label, entity, scene_pose_entity) ==
    [label |-> label, entity |-> entity, scene_pose_entity |-> scene_pose_entity]

\* Widget3::new: the camera four units back, no entities
InitialCameraPose == "translation(0,0,-4)"
Widget3(camera_pose_scene, entities) ==
    [type |-> "Widget3", camera_pose_scene |-> camera_pose_scene, entities |-> entities,
     texture_id |-> "None"]
\* Widget2::from_image
Widget2(image) == [type |-> "Widget2", image |-> image]

IsWidget3(widgets, label) ==
    LhmHas(widgets, label) /\ LhmGet(widgets, label).type = "Widget3"

-----------------------------------------------------------------------------
(* Messages: common.rs ToGuiLoopMessage, FromGuiLoopMessage *)

AddVarTag(T) == CASE T = "bool" -> "AddVarBool"
                  [] T = "i32" -> "AddVarI32"
                  [] T = "f64" -> "AddVarF64"
AddRangedVarTag(T) == CASE T = "i32" -> "AddRangedVarI32"
                        [] T = "f64" -> "AddRangedVarF64"
UpdateRangedValueTag(T) == CASE T = "i32" -> "UpdateRangedValueI32"
                             [] T = "f64" -> "UpdateRangedValueF64"
TypeOfTag(tag) == CASE tag \in {"AddVarBool"} -> "bool"
                    [] tag \in {"AddVarI32", "AddRangedVarI32", "UpdateRangedValueI32"} -> "i32"
                    [] tag \in {"AddVarF64", "AddRangedVarF64", "UpdateRangedValueF64"} -> "f64"

AddButtonMsg(label) == [kind |-> "AddButton", label |-> label]
\* Number::add_var_message and the AddVarBool of UiVar<bool>::new
AddVarMsg(T, label, value) == [kind |-> AddVarTag(T), label |-> label, value |-> value]
\* Number::add_ranged_var_message
AddRangedVarMsg(T, label, value, min_max) ==
    [kind |-> AddRangedVarTag(T), label |-> label, value |-> value, min_max |-> min_max]
AddEnumStringReprMsg(label, value, values) ==
    [kind |-> "AddEnumStringRepr", label |-> label, value |-> value, values |-> values]

AddWidget2Msg(label, image) == [kind |-> "AddWidget2", label |-> label, image |-> image]
AddWidget3Msg(label) == [kind |-> "AddWidget3", label |-> label]
PlaceEntity3Msg(widget_label, named_entity) ==
    [kind |-> "PlaceEntity3", widget_label |-> widget_label, named_entity |-> named_entity]
UpdateScenePoseEntity3Msg(widget_label, entity_label, scene_pose_entity) ==
    [kind |-> "UpdateScenePoseEntity3", widget_label |-> widget_label,
     entity_label |-> entity_label, scene_pose_entity |-> scene_pose_entity]
DeleteComponentMsg(label) == [kind |-> "DeleteComponent", label |-> label]

UpdateButtonMsg(label) == [kind |-> "UpdateButton", label |-> label]
UpdateValueBoolMsg(label, value) ==
    [kind |-> "UpdateValueBool", label |-> label, value |-> value]
\* Number::update_range_value_message
UpdateRangedValueMsg(T, label, value) ==
    [kind |-> UpdateRangedValueTag(T), label |-> label, value |-> value]
UpdateEnumStringReprMsg(label, value) ==
    [kind |-> "UpdateEnumStringRepr", label |-> label, value |-> value]

AddVarNumberTags == {AddVarTag(T) : T \in NumberTypes}
AddRangedVarTags == {AddRangedVarTag(T) : T \in NumberTypes}
UpdateRangedValueTags == {UpdateRangedValueTag(T) : T \in NumberTypes}

\* Not part of the program: the position of a message in the order its side
\* created it, carried along so that delivery can be compared with creation.
Stamp(m, n) == [seq |-> n] @@ m

-----------------------------------------------------------------------------
(* Queues and channels *)

\* VecDeque::push_back
\* (PushFront: VecDeque::push_front, for comparison)
PushFront(q, m) == <<m>> \o q
PushBack(q, m) == Append(q, m)

\* VecDeque::pop_front on a queue that is not empty: the item and what is left
\* (pop_back: VecDeque::pop_back, for comparison)
pop_back(q) == [item |-> q[Len(q)], rest |-> SubSeq(q, 1, Len(q) - 1)]
pop_front(q) == [item |-> Head(q), rest |-> Tail(q)]

\* mpsc::Sender::send on the unbounded channel: never waits
\* (SendLossy: a channel that loses what is sent, for comparison)
SendLossy(ch, m) == ch
Send(ch, m) == Append(ch, m)

\* one step of mpsc::Receiver::try_iter: the iterator ends when try_recv
\* finds the channel empty (it does not wait for a sender)
\* (IterNeverEnds: Receiver::iter, which waits for the next message instead)
IterNeverEnds(ch) == FALSE
TryIterEnds(ch) == ch = <<>>

-----------------------------------------------------------------------------
(* State *)

VARIABLES
    mode,             \* app.rs VVizMode: "Local" or "Remote"
    components,       \* manager.rs Shared.components: the control-side mirror
    message_queue,    \* manager.rs Shared.message_queue: the outbound queue
    handles,          \* the Ui* handles the add_* calls returned, in call order
    pcC,              \* position of the control thread
    ret,              \* the control thread's last API call and what it returned
    to_gui_chan,      \* channel read by GuiLoop.to_gui_loop_receiver
    from_gui_chan,    \* channel written by GuiLoop.from_gui_loop_sender
    data_components,  \* gui.rs GuiData.components: the presentation store
    data_widgets,     \* gui.rs GuiData.widgets
    pcG,              \* position of the presentation thread within draw
    nEvents,          \* user interactions so far
    srv_to_gui_chan,  \* new_remote: Manager.to_gui_loop_sender -> server relay thread
    srv_from_gui_chan,\* new_remote: server relay thread -> Manager.from_gui_loop_receiver
    ws_to_server,     \* websocket frames written by the client, not yet read
    ws_to_client,     \* websocket frames written by the server, not yet read
    pcS,              \* position of the server relay thread (manager.rs new_remote)
    srv_pending,      \* server relay: messages of the parsed frame still to forward
    pcR,              \* position of the client relay thread (remote_client.rs main)
    cli_pending,      \* client relay: messages of the parsed frame still to forward
    nEnq,             \* number of ToGuiLoopMessages the control API enqueued so far
    nEmit,            \* number of FromGuiLoopMessages the show steps sent so far
    guiApplied,       \* seq numbers of the messages GuiLoop::draw passed to update_gui
    guiLast,          \* the message GuiLoop::draw passed to update_gui last
    ctlApplied        \* seq numbers of the messages sync_with_gui passed to update

controlVars == <<components, message_queue, handles, pcC, ret>>
guiVars == <<data_components, data_widgets, pcG, nEvents>>
chanVars == <<to_gui_chan, from_gui_chan>>
relayVars == <<srv_to_gui_chan, srv_from_gui_chan, ws_to_server, ws_to_client,
               pcS, srv_pending, pcR, cli_pending>>
logVars == <<nEnq, nEmit, guiApplied, guiLast, ctlApplied>>
vars == <<mode, controlVars, guiVars, chanVars, relayVars, logVars>>

\* ret.tick flips on every call, so that two calls with the same outcome are
\* two steps
NoRet == [op |-> "none", h |-> 0, some |-> FALSE, value |-> "", tick |-> FALSE]
Returned(op, h, some, value) ==
    [op |-> op, h |-> h, some |-> some, value |-> value, tick |-> ~ret.tick]

\* Shared::default, Manager::new_local, GuiData::default, App::spawn
InitCommon ==
    /\ components = [l \in Labels |-> NoComp]
    /\ message_queue = <<>>
    /\ handles = <<>>
    /\ pcC = "idle"
    /\ ret = NoRet
    /\ to_gui_chan = <<>>
    /\ from_gui_chan = <<>>
    /\ data_components = [l \in Labels |-> NoComp]
    /\ data_widgets = <<>>
    /\ pcG = "drain"
    /\ nEvents = 0
    /\ nEnq = 0
    /\ nEmit = 0
    /\ guiApplied = <<>>
    /\ guiLast = [kind |-> "None"]
    /\ ctlApplied = <<>>
    /\ srv_to_gui_chan = <<>>
    /\ srv_from_gui_chan = <<>>
    /\ ws_to_server = <<>>
    /\ ws_to_client = <<>>
    /\ srv_pending = <<>>
    /\ cli_pending = <<>>

\* App::spawn: no relay thread exists in local mode
Init == mode = "Local" /\ pcS = "none" /\ pcR = "none" /\ InitCommon

-----------------------------------------------------------------------------
(* Control side: the add_* calls (manager.rs) *)

CanAdd == pcC = "idle" /\ Len(handles) < MaxHandles

\* the part every Ui*::new shares: push_back of the message, insert into the
\* mirror, and the handle handed back to the caller
Register(msg, comp, handle, op, value) ==
    /\ message_queue' = PushBack(message_queue, Stamp(msg, nEnq + 1))
    /\ nEnq' = nEnq + 1
    /\ components' = Insert(components, msg.label, comp)
    /\ handles' = Append(handles, handle)
    /\ ret' = Returned(op, Len(handles) + 1, TRUE, value)
    /\ UNCHANGED <<mode, pcC, guiVars, chanVars, relayVars, nEmit, guiApplied, guiLast,
                   ctlApplied>>

\* Manager::add_button, UiButton::new
add_button(label) ==
    /\ CanAdd
    /\ Register(AddButtonMsg(label), Button(FALSE),
                [type |-> "UiButton", label |-> label, cache |-> ""],
                "add_button", "false")

\* Manager::add_bool, UiVar<bool>::new
add_bool(label, value) ==
    /\ CanAdd
    /\ Register(AddVarMsg("bool", label, value), Var("bool", value),
                [type |-> "UiVar<bool>", label |-> label, cache |-> value],
                "add_bool", value)

UiVarType(T) == CASE T = "i32" -> "UiVar<i32>" [] T = "f64" -> "UiVar<f64>"
UiRangedVarType(T) == CASE T = "i32" -> "UiRangedVar<i32>" [] T = "f64" -> "UiRangedVar<f64>"

\* Manager::add_number, UiVar<T: Number>::new
add_number(label, T, value) ==
    /\ CanAdd
    /\ Register(AddVarMsg(T, label, value), Var(T, value),
                [type |-> UiVarType(T), label |-> label, cache |-> value],
                "add_number", value)

\* Manager::add_ranged_value, UiRangedVar<T>::new
add_ranged_value(label, T, value, min_max) ==
    /\ CanAdd
    /\ Register(AddRangedVarMsg(T, label, value, min_max), RangedVar(T, value, min_max),
                [type |-> UiRangedVarType(T), label |-> label, cache |-> value],
                "add_ranged_value", value)

\* for str in T::VARIANTS { values_map.push(str.to_string()) }
ValuesMap == VARIANTS
ValuesMapOf(value) ==
    IF value \in ManipulationT THEN MANIPULATION_VARIANTS ELSE ValuesMap
\* UiEnum<T> of the value's type T
UiEnumType(value) ==
    IF value \in ManipulationT THEN "UiEnum<Manipulation>" ELSE "UiEnum<Options>"

\* Manager::add_enum, UiEnum<T>::new
add_enum(label, value) ==
    /\ CanAdd
    /\ Register(AddEnumStringReprMsg(label, to_string(value), ValuesMapOf(value)),
                EnumStringRepr(to_string(value), ValuesMapOf(value)),
                [type |-> UiEnumType(value), label |-> label, cache |-> value],
                "add_enum", value)

-----------------------------------------------------------------------------
(* Control side: reads through a handle (manager.rs) *)

\* the component type each handle type downcasts the mirror entry to
DowncastTarget(handleType) ==
    CASE handleType = "UiButton" -> "Button"
      [] handleType = "UiVar<bool>" -> "Var<bool>"
      [] handleType = "UiVar<i32>" -> "Var<i32>"
      [] handleType = "UiVar<f64>" -> "Var<f64>"
      [] handleType = "UiRangedVar<i32>" -> "RangedVar<i32>"
      [] handleType = "UiRangedVar<f64>" -> "RangedVar<f64>"
      [] handleType = "UiEnum<Options>" -> "EnumStringRepr"
      [] handleType = "UiEnum<Manipulation>" -> "EnumStringRepr"

\* components.get(&label).unwrap().downcast_ref::<X>().unwrap() succeeds
Downcasts(map, label, target) == map[label].type = target

\* a panic of the control thread (an unwrap on None or Err)
ControlPanics(op, h) ==
    /\ pcC' = "panic"
    /\ ret' = Returned(op, h, FALSE, "panic")
    /\ UNCHANGED <<mode, components, message_queue, handles, guiVars, chanVars, relayVars, logVars>>

\* the value a value handle reads: the mirror value, parsed for an enum.
\* The result is ParseError when FromStr fails (the unwrap then panics).
ReadValue(handle) ==
    CASE handle.type = "UiEnum<Options>" -> from_str(components[handle.label].value)
      [] handle.type = "UiEnum<Manipulation>" ->
            from_str_manipulation(components[handle.label].value)
      [] OTHER -> components[handle.label].value

\* self.cache = value: the field of this handle
\* (SetAllCaches: what a stamp shared by all handles would do)
SetAllCaches(h, value) ==
    [g \in DOMAIN handles |-> [handles[g] EXCEPT !.cache = value]]
SetCache(h, value) == [handles EXCEPT ![h].cache = value]

\* UiVar<bool>::get_value, UiVar<T>::get_value, UiRangedVar<T>::get_value,
\* UiEnum<T>::get_value
get_value(h) ==
    /\ pcC = "idle"
    /\ handles[h].type \notin {"UiButton", "UiWidget3"}
    /\ IF Downcasts(components, handles[h].label, DowncastTarget(handles[h].type))
          /\ ReadValue(handles[h]) # ParseError
       THEN /\ handles' = SetCache(h, ReadValue(handles[h]))
            /\ ret' = Returned("get_value", h, TRUE, ReadValue(handles[h]))
            /\ UNCHANGED <<mode, components, message_queue, pcC,
                           guiVars, chanVars, relayVars, logVars>>
       ELSE ControlPanics("get_value", h)

\* UiVar<bool>::get_new_value, UiVar<T>::get_new_value,
\* UiRangedVar<T>::get_new_value, UiEnum<T>::get_new_value
get_new_value(h) ==
    /\ pcC = "idle"
    /\ handles[h].type \notin {"UiButton", "UiWidget3"}
    /\ IF Downcasts(components, handles[h].label, DowncastTarget(handles[h].type))
          /\ ReadValue(handles[h]) # ParseError
       THEN /\ IF ValueNe(ReadValue(handles[h]), handles[h].cache)
               THEN /\ handles' = SetCache(h, ReadValue(handles[h]))
                    /\ ret' = Returned("get_new_value", h, TRUE, ReadValue(handles[h]))
               ELSE /\ handles' = handles
                    /\ ret' = Returned("get_new_value", h, FALSE, "None")
            /\ UNCHANGED <<mode, components, message_queue, pcC,
                           guiVars, chanVars, relayVars, logVars>>
       ELSE ControlPanics("get_new_value", h)

BoolStr(b) == IF b THEN "true" ELSE "false"

\* the part the widget calls share: push_back of the message; no entry is
\* made in the mirror
Enqueue(msg, op, h) ==
    /\ pcC = "idle"
    /\ nEnq < MaxCalls
    /\ message_queue' = PushBack(message_queue, Stamp(msg, nEnq + 1))
    /\ nEnq' = nEnq + 1
    /\ ret' = Returned(op, h, FALSE, "")
    /\ UNCHANGED <<mode, components, pcC, guiVars, chanVars, relayVars, nEmit,
                   guiApplied, guiLast, ctlApplied>>

\* Manager::add_widget2, UiWidget2::new: the handle has no state and no method
add_widget2(label, image) ==
    /\ Enqueue(AddWidget2Msg(label, image), "add_widget2", 0)
    /\ handles' = handles

\* (add_widget3_direct: what an add_widget3 that wrote the panel into the
\* presentation store itself would do)
add_widget3_direct(label) ==
    /\ pcC = "idle"
    /\ nEnq < MaxCalls
    /\ Len(handles) < MaxHandles
    /\ data_widgets' = LhmInsert(data_widgets, label, Widget3(InitialCameraPose, <<>>))
    /\ nEnq' = nEnq + 1
    /\ handles' = Append(handles, [type |-> "UiWidget3", label |-> label, cache |-> ""])
    /\ ret' = Returned("add_widget3", Len(handles) + 1, FALSE, "")
    /\ UNCHANGED <<mode, components, message_queue, pcC, data_components, pcG, nEvents,
                   chanVars, relayVars, nEmit, guiApplied, guiLast, ctlApplied>>
\* (add_widget3_unqueued: what an add_widget3 that handed out the handle
\* without queueing the message would do)
add_widget3_unqueued(label) ==
    /\ pcC = "idle"
    /\ nEnq < MaxCalls
    /\ Len(handles) < MaxHandles
    /\ nEnq' = nEnq + 1
    /\ handles' = Append(handles, [type |-> "UiWidget3", label |-> label, cache |-> ""])
    /\ ret' = Returned("add_widget3", Len(handles) + 1, FALSE, "")
    /\ UNCHANGED <<mode, components, message_queue, pcC, guiVars, chanVars,
                   relayVars, nEmit, guiApplied, guiLast, ctlApplied>>
\* Manager::add_widget3, UiWidget3::new
add_widget3(label) ==
    /\ Len(handles) < MaxHandles
    /\ Enqueue(AddWidget3Msg(label), "add_widget3", Len(handles) + 1)
    /\ handles' = Append(handles, [type |-> "UiWidget3", label |-> label, cache |-> ""])

\* UiWidget3::place_entity
place_entity(h, label, entity) ==
    /\ handles[h].type = "UiWidget3"
    /\ Enqueue(PlaceEntity3Msg(handles[h].label, NamedEntity3(label, entity, "identity")),
               "place_entity", h)
    /\ handles' = handles

\* UiWidget3::place_entity_at
place_entity_at(h, label, entity, scene_pose_entity) ==
    /\ handles[h].type = "UiWidget3"
    /\ Enqueue(PlaceEntity3Msg(handles[h].label,
                               NamedEntity3(label, entity, scene_pose_entity)),
               "place_entity_at", h)
    /\ handles' = handles

\* UiWidget3::update_scene_pose_entity
update_scene_pose_entity(h, label, scene_pose_entity) ==
    /\ handles[h].type = "UiWidget3"
    /\ Enqueue(UpdateScenePoseEntity3Msg(handles[h].label, label, scene_pose_entity),
               "update_scene_pose_entity", h)
    /\ handles' = handles

\* (was_pressed_keeps: what a was_pressed that left the flag for the other
\* handles of the label would do)
was_pressed_keeps(h) ==
    /\ pcC = "idle"
    /\ handles[h].type = "UiButton"
    /\ IF Downcasts(components, handles[h].label, "Button")
       THEN /\ ret' = Returned("was_pressed", h, TRUE,
                             BoolStr(components[handles[h].label].pressed))
            /\ UNCHANGED <<mode, components, message_queue, handles, pcC,
                           guiVars, chanVars, relayVars, logVars>>
       ELSE ControlPanics("was_pressed", h)
\* UiButton::was_pressed
was_pressed(h) ==
    /\ pcC = "idle"
    /\ handles[h].type = "UiButton"
    /\ IF Downcasts(components, handles[h].label, "Button")
       THEN /\ components' = IF components[handles[h].label].pressed
                             THEN [components EXCEPT ![handles[h].label].pressed = FALSE]
                             ELSE components
            /\ ret' = Returned("was_pressed", h, TRUE,
                             BoolStr(components[handles[h].label].pressed))
            /\ UNCHANGED <<mode, message_queue, handles, pcC,
                           guiVars, chanVars, relayVars, logVars>>
       ELSE ControlPanics("was_pressed", h)

-----------------------------------------------------------------------------
(* Applying a FromGuiLoopMessage to the mirror: common.rs *)

\* the component type each update downcasts the mirror entry to
UpdateTarget(kind) ==
    CASE kind = "UpdateEnumStringRepr" -> "EnumStringRepr"
      [] kind = "UpdateValueBool" -> "Var<bool>"
      [] kind = "UpdateRangedValueI32" -> "RangedVar<i32>"
      [] kind = "UpdateRangedValueF64" -> "RangedVar<f64>"
      [] kind = "UpdateButton" -> "Button"

\* components.get_mut(&label).unwrap().downcast_mut::<X>().unwrap() succeeds
\* (AlwaysFound: what a lookup that never failed would do)
AlwaysFound(map, m) == TRUE
UpdateFound(map, m) == map[m.label].type = UpdateTarget(m.kind)

\* FromGuiLoopMessage::update and the update of each variant
\* (UpdateIgnored: what dropping the message would do; UpdateRemoves: what
\* an update that took the slot away would do)
UpdateIgnored(map, m) == map
UpdateRemoves(map, m) == [map EXCEPT ![m.label] = NoComp]
\* (UpdateToggles: what an update that flipped the flag on each press would do)
UpdateToggles(map, m) ==
    IF m.kind = "UpdateButton"
    THEN [map EXCEPT ![m.label].pressed = ~@]
    ELSE [map EXCEPT ![m.label].value = m.value]
Update(map, m) ==
    IF m.kind = "UpdateButton"
    THEN [map EXCEPT ![m.label].pressed = TRUE]
    ELSE [map EXCEPT ![m.label].value = m.value]

-----------------------------------------------------------------------------
(* Control side: Manager::sync_with_gui (manager.rs) *)

\* the channel behind Manager.to_gui_loop_sender / from_gui_loop_receiver:
\* GuiLoop's own channels in local mode (App::spawn), the relay thread's in
\* remote mode (Manager::new_remote)
ManagerOut == IF mode = "Local" THEN to_gui_chan ELSE srv_to_gui_chan
ManagerIn == IF mode = "Local" THEN from_gui_chan ELSE srv_from_gui_chan

\* send(..).unwrap() fails once the receiving end is gone: in remote mode the
\* receiver lives in the relay thread and is dropped when that thread panics
\* (local mode: the Manager and its receiver are dropped when the control
\* thread unwinds)
ManagerPeerAlive == mode = "Local" \/ pcS # "panic"
GuiPeerAlive ==
    IF mode = "Local" THEN pcC \notin {"panic", "returned"} ELSE pcR # "panic"

\* (ManagerDrops: what a sync_with_gui that popped a message and sent it
\* nowhere would do)
ManagerDrops(m) == to_gui_chan' = to_gui_chan /\ srv_to_gui_chan' = srv_to_gui_chan
ManagerSend(m) ==
    IF mode = "Local"
    THEN to_gui_chan' = Send(to_gui_chan, m) /\ srv_to_gui_chan' = srv_to_gui_chan
    ELSE srv_to_gui_chan' = Send(srv_to_gui_chan, m) /\ to_gui_chan' = to_gui_chan

ManagerRecv ==
    IF mode = "Local"
    THEN from_gui_chan' = Tail(from_gui_chan) /\ srv_from_gui_chan' = srv_from_gui_chan
    ELSE srv_from_gui_chan' = Tail(srv_from_gui_chan) /\ from_gui_chan' = from_gui_chan

\* the call itself
sync_with_gui ==
    /\ pcC = "idle"
    /\ pcC' = "sync_send"
    /\ ret' = Returned("sync_with_gui", 0, FALSE, "running")
    /\ UNCHANGED <<mode, components, message_queue, handles,
                   guiVars, chanVars, relayVars, logVars>>

\* one iteration of the first loop: pop_front, break on None, else send
sync_send ==
    /\ pcC = "sync_send"
    /\ IF message_queue = <<>>
       THEN /\ pcC' = "sync_recv"
            /\ UNCHANGED <<message_queue, ret, to_gui_chan, srv_to_gui_chan>>
       ELSE /\ message_queue' = pop_front(message_queue).rest
            /\ IF ManagerPeerAlive
               THEN ManagerSend(pop_front(message_queue).item) /\ UNCHANGED <<pcC, ret>>
               ELSE /\ pcC' = "panic"
                    /\ ret' = [ret EXCEPT !.value = "panic"]
                    /\ UNCHANGED <<to_gui_chan, srv_to_gui_chan>>
    /\ UNCHANGED <<mode, components, handles, guiVars, from_gui_chan,
                   srv_from_gui_chan, ws_to_server, ws_to_client,
                   pcS, srv_pending, pcR, cli_pending, logVars>>

\* one iteration of `for m in self.from_gui_loop_receiver.try_iter()`, and the
\* sleep and return once the iterator ends
sync_recv ==
    /\ pcC = "sync_recv"
    /\ IF TryIterEnds(ManagerIn)
       THEN /\ pcC' = "idle"
            /\ ret' = [ret EXCEPT !.value = "returned"]
            /\ UNCHANGED <<components, from_gui_chan, srv_from_gui_chan, ctlApplied>>
       ELSE /\ ManagerIn # <<>>
            /\ ManagerRecv
            /\ ctlApplied' = Append(ctlApplied, Head(ManagerIn).seq)
            /\ IF UpdateFound(components, Head(ManagerIn))
               THEN /\ components' = Update(components, Head(ManagerIn))
                    /\ UNCHANGED <<pcC, ret>>
               ELSE /\ components' = components
                    /\ pcC' = "panic"
                    /\ ret' = [ret EXCEPT !.value = "panic"]
    /\ UNCHANGED <<mode, message_queue, handles, guiVars, to_gui_chan,
                   srv_to_gui_chan, ws_to_server, ws_to_client,
                   pcS, srv_pending, pcR, cli_pending, nEnq, nEmit, guiApplied,
                   guiLast>>

-----------------------------------------------------------------------------
(* Presentation side: GuiLoop::draw (gui.rs) and update_gui / show (common.rs) *)

\* ToGuiLoopMessage::update_gui on GuiData.components
UpdateGui(map, m) ==
    CASE m.kind = "AddButton" -> Insert(map, m.label, Button(FALSE))
      [] m.kind = "AddVarBool" -> Insert(map, m.label, Var("bool", m.value))
      [] m.kind \in AddVarNumberTags ->
            Insert(map, m.label, Var(TypeOfTag(m.kind), m.value))
      [] m.kind \in AddRangedVarTags ->
            Insert(map, m.label, RangedVar(TypeOfTag(m.kind), m.value, m.min_max))
      [] m.kind = "AddEnumStringRepr" ->
            Insert(map, m.label, EnumStringRepr(m.value, m.values))
      [] m.kind = "DeleteComponent" -> Remove(map, m.label)
      [] OTHER -> map

\* PlaceEntity3::update_gui: entities.insert on the Widget3 under widget_label
\* (PlaceEntity3Ignored: what dropping the message would do)
PlaceEntity3Ignored(widgets, m) == widgets
PlaceEntity3_update_gui(widgets, m) ==
    LhmSet(widgets, m.widget_label,
           [LhmGet(widgets, m.widget_label) EXCEPT
               !.entities = LhmInsert(@, m.named_entity.label, m.named_entity)])

\* UpdateScenePoseEntity3::update_gui: entities.get_mut(&entity_label); None
\* returns at once, Some has its scene_pose_entity overwritten
\* (UpdateScenePoseOrPlace: what an update that created a missing entity
\* would do)
UpdateScenePoseOrPlace(widgets, m) ==
    LhmSet(widgets, m.widget_label,
           [LhmGet(widgets, m.widget_label) EXCEPT
               !.entities = LhmInsert(@, m.entity_label,
                   NamedEntity3(m.entity_label, "none", m.scene_pose_entity))])
UpdateScenePoseEntity3_update_gui(widgets, m) ==
    IF LhmHas(LhmGet(widgets, m.widget_label).entities, m.entity_label)
    THEN LhmSet(widgets, m.widget_label,
                [LhmGet(widgets, m.widget_label) EXCEPT
                    !.entities = LhmSet(@, m.entity_label,
                        [LhmGet(@, m.entity_label) EXCEPT
                            !.scene_pose_entity = m.scene_pose_entity])])
    ELSE widgets

\* ToGuiLoopMessage::update_gui on GuiData.widgets
UpdateGuiWidgets(widgets, m) ==
    CASE m.kind = "AddWidget2" -> LhmInsert(widgets, m.label, Widget2(m.image))
      [] m.kind = "AddWidget3" ->
            LhmInsert(widgets, m.label, Widget3(InitialCameraPose, <<>>))
      [] m.kind = "PlaceEntity3" -> PlaceEntity3_update_gui(widgets, m)
      [] m.kind = "UpdateScenePoseEntity3" ->
            UpdateScenePoseEntity3_update_gui(widgets, m)
      [] OTHER -> widgets

\* widgets.get_mut(&widget_label).unwrap().downcast_mut::<Widget3>().unwrap()
\* panics: no widget under the label, or one that is no Widget3
UpdateGuiPanics(widgets, m) ==
    /\ m.kind \in {"PlaceEntity3", "UpdateScenePoseEntity3"}
    /\ ~IsWidget3(widgets, m.widget_label)

\* ToGuiLoopMessage::update_gui on GuiData: a panic unwinds before anything
\* is written
\* (update_gui_skipping: what skipping a message that cannot be applied
\* would do)
update_gui_skipping(map, widgets, m) ==
    IF UpdateGuiPanics(widgets, m)
    THEN [components |-> map, widgets |-> widgets, panicked |-> FALSE]
    ELSE [components |-> UpdateGui(map, m),
          widgets |-> UpdateGuiWidgets(widgets, m), panicked |-> FALSE]
update_gui(map, widgets, m) ==
    IF UpdateGuiPanics(widgets, m)
    THEN [components |-> map, widgets |-> widgets, panicked |-> TRUE]
    ELSE [components |-> UpdateGui(map, m),
          widgets |-> UpdateGuiWidgets(widgets, m), panicked |-> FALSE]

\* (render_nothing: what a render that left texture_id alone would do)
render_nothing(widget) == widget
\* Widget::render: Widget3 draws its entities into the offscreen pass and
\* sets texture_id; Widget2::render is empty
render(widget) ==
    IF widget.type = "Widget3" THEN [widget EXCEPT !.texture_id = "Some"] ELSE widget

\* (RenderSkipped: what a frame that showed without rendering would do)
RenderSkipped(widgets) == widgets
\* `for (_, w) in &mut self.data.widgets { w.render(ctx); }`
RenderAll(widgets) ==
    [i \in 1..Len(widgets) |-> [widgets[i] EXCEPT !.value = render(@)]]

\* one iteration of `for m in self.to_gui_loop_receiver.try_iter()`; when
\* the iterator ends, the render loop runs and the frame goes on to show
frame_drain ==
    /\ pcG = "drain"
    /\ IF TryIterEnds(to_gui_chan)
       THEN /\ pcG' = "show"
            /\ data_widgets' = RenderAll(data_widgets)
            /\ UNCHANGED <<to_gui_chan, data_components, guiApplied, guiLast>>
       ELSE /\ to_gui_chan # <<>>
            /\ to_gui_chan' = Tail(to_gui_chan)
            /\ guiApplied' = Append(guiApplied, Head(to_gui_chan).seq)
            /\ guiLast' = Head(to_gui_chan)
            /\ LET r == update_gui(data_components, data_widgets, Head(to_gui_chan))
               IN  /\ data_components' = r.components
                   /\ data_widgets' = r.widgets
                   /\ pcG' = IF r.panicked THEN "panic" ELSE pcG
    /\ UNCHANGED <<mode, controlVars, nEvents, from_gui_chan, relayVars,
                   nEnq, nEmit, ctlApplied>>

Not(b) == IF b = "true" THEN "false" ELSE "true"

\* egui::Slider over min_max.0..=min_max.1: the values a drag can set
SliderValues(min_max) ==
    {v \in {"0", "1", "2", "3"} :
        NumOf(min_max[1]) <= NumOf(v) /\ NumOf(v) <= NumOf(min_max[2])}

SeqRange(q) == {q[i] : i \in 1..Len(q)}

\* What the user can do to the component shown under `label` in one frame,
\* as <<the component after show, the message show sends>>:
\* Button::show (clicked), Var<bool>::show (checkbox changed),
\* RangedVar<T>::show (slider changed), EnumStringRepr::show (selection
\* differs).  Var<T: Number>::show only draws a text label.
Interactions(label, c) ==
    CASE c.type = "Button" -> {<<c, UpdateButtonMsg(label)>>}
      [] c.type = "Var<bool>" ->
            {<<[c EXCEPT !.value = Not(c.value)], UpdateValueBoolMsg(label, Not(c.value))>>}
      [] IsRanged(c) ->
            {<<[c EXCEPT !.value = v],
               UpdateRangedValueMsg(IF c.type = "RangedVar<i32>" THEN "i32" ELSE "f64", label, v)>> :
                 v \in SliderValues(c.min_max) \ {c.value}}
      [] c.type = "EnumStringRepr" ->
            {<<[c EXCEPT !.value = v], UpdateEnumStringReprMsg(label, v)>> :
                 v \in SeqRange(c.values) \ {c.value}}
      [] OTHER -> {}

\* ImageRgba8 width and height of the images of the runs
ImageSize(image) ==
    CASE image = "wide" -> <<2, 1>>
      [] image = "tall" -> <<1, 2>>
      [] OTHER -> <<1, 1>>

\* Widget::aspect_ratio as the fraction <<width, height>>: 640.0 / 480.0 for
\* Widget3::new, rgba8.width / rgba8.height for Widget2::from_image
aspect_ratio(widget) ==
    IF widget.type = "Widget3" THEN <<640, 480>> ELSE ImageSize(widget.image)

RatLess(a, b) == a[1] * b[2] < b[1] * a[2]
RatEq(a, b) == a[1] * b[2] = b[1] * a[2]
\* 0.5 * a + 0.5 * b
RatMean(a, b) == <<a[1] * b[2] + b[1] * a[2], 2 * a[2] * b[2]>>

\* aspect_ratios after the push loop and sort_by(partial_cmp)
aspect_ratios(widgets) ==
    SortSeq([i \in 1..Len(widgets) |-> aspect_ratio(widgets[i].value)], RatLess)

\* median_aspect_ratio as draw computes it; the vector's index k is k + 1 here
median_aspect_ratio(widgets) ==
    LET a == aspect_ratios(widgets)
        n == Len(a)
    IN  IF n % 2 = 1
        THEN a[(n \div 2) + 1]
        ELSE RatMean(a[(n \div 2) + 1], a[(n \div 2 + 1) + 1])

\* the central panel's median_aspect_ratio: for an even number n of widgets
\* it reads aspect_ratios[n / 2 + 1], which is out of bounds when n = 2
LayoutPanics(widgets) ==
    /\ Len(widgets) # 0
    /\ Len(widgets) % 2 = 0
    /\ (Len(widgets) \div 2) + 1 >= Len(widgets)

\* Widget3::show: self.texture_id.unwrap()
ShowPanics(widgets) ==
    \E i \in 1..Len(widgets) :
        widgets[i].value.type = "Widget3" /\ widgets[i].value.texture_id = "None"

\* the central panel: the layout, then every widget's show
CentralPanelPanics(widgets) == LayoutPanics(widgets) \/ ShowPanics(widgets)

\* the rest of draw with no user interaction: every show leaves its component
\* as it is and sends nothing
frame_show_idle ==
    /\ pcG = "show"
    /\ pcG' = IF CentralPanelPanics(data_widgets) THEN "panic" ELSE "drain"
    /\ UNCHANGED <<mode, controlVars, data_components, data_widgets, nEvents,
                   chanVars, relayVars, logVars>>

\* Widget3::show while a pointer button is down and the pointer moves: it
\* reads the pointer of the whole window (ui.ctx().input().pointer), not the
\* response of its own image, and moves camera_pose_scene
DragCamera(camera_pose_scene) ==
    IF camera_pose_scene = InitialCameraPose THEN "dragged" ELSE "dragged again"

\* Widget::show of every widget during such a frame; Widget2::show draws only
ShowDragged(widgets) ==
    [i \in 1..Len(widgets) |->
        IF widgets[i].value.type = "Widget3"
        THEN [widgets[i] EXCEPT !.value.camera_pose_scene = DragCamera(@)]
        ELSE widgets[i]]

\* the rest of draw when the user interacts with the component under `label`
\* (the pointer is over one component of the side panel); a slider is
\* changed by a click, or by a drag, which the 3D panels take as theirs
frame_show_event(label) ==
    /\ pcG = "show"
    /\ nEvents < MaxEvents
    /\ \E r \in Interactions(label, data_components[label]) :
          /\ data_components' = [data_components EXCEPT ![label] = r[1]]
          /\ IF GuiPeerAlive
             THEN /\ from_gui_chan' = Send(from_gui_chan, Stamp(r[2], nEmit + 1))
                  /\ nEmit' = nEmit + 1
                  /\ pcG' = IF CentralPanelPanics(data_widgets) THEN "panic" ELSE "drain"
             ELSE /\ pcG' = "panic"
                  /\ UNCHANGED <<from_gui_chan, nEmit>>
    /\ nEvents' = nEvents + 1
    /\ data_widgets' \in IF IsRanged(data_components[label])
                          THEN {data_widgets, ShowDragged(data_widgets)}
                          ELSE {data_widgets}
    /\ UNCHANGED <<mode, controlVars, to_gui_chan, relayVars,
                   nEnq, guiApplied, guiLast, ctlApplied>>

-----------------------------------------------------------------------------
(* Local mode: the control closure and the window's frames *)

ControlCall ==
    \/ \E l \in Labels : add_button(l)
    \/ \E l \in Labels, v \in BoolInputs : add_bool(l, v)
    \/ \E l \in Labels, i \in NumberInputs : add_number(l, i.T, i.value)
    \/ \E l \in Labels, i \in RangedInputs : add_ranged_value(l, i.T, i.value, i.min_max)
    \/ \E l \in Labels, v \in EnumInputs : add_enum(l, v)
    \/ \E h \in 1..Len(handles) : get_value(h)
    \/ \E h \in 1..Len(handles) : get_new_value(h)
    \/ \E h \in 1..Len(handles) : was_pressed(h)
    \/ sync_with_gui

\* GuiLoop runs on the main thread (miniquad::start): in local mode a panic
\* in draw ends the process and the control thread with it
ControlRuns == mode = "Remote" \/ pcG # "panic"

ControlStep == ControlRuns /\ (ControlCall \/ sync_send \/ sync_recv)

\* the rest of draw when the user drags the pointer over the widget under
\* `label` (the pointer is in the central panel, so no component sends
\* anything)
frame_show_drag(label) ==
    /\ pcG = "show"
    /\ ~CentralPanelPanics(data_widgets)
    /\ LhmHas(data_widgets, label)
    /\ data_widgets' = ShowDragged(data_widgets)
    /\ data_widgets' # data_widgets
    /\ pcG' = "drain"
    /\ UNCHANGED <<mode, controlVars, data_components, nEvents, chanVars,
                   relayVars, logVars>>

GuiStep ==
    \/ frame_drain
    \/ frame_show_idle
    \/ \E l \in DOMAIN data_components : frame_show_event(l)

Next == ControlStep \/ GuiStep

Spec == Init /\ [][Next]_vars

\* the control thread is scheduled; nothing is assumed of the window
SpecControlFair == Spec /\ WF_vars(ControlStep)

\* the control closure keeps calling sync_with_gui, each call runs on, and
\* the window keeps drawing frames
SpecFair ==
    /\ Spec
    /\ WF_vars(ControlRuns /\ sync_with_gui)
    /\ WF_vars(ControlRuns /\ (sync_send \/ sync_recv))
    /\ WF_vars(GuiStep)

-----------------------------------------------------------------------------
(* Remote mode: the wire format and the two relay threads *)

\* the message variants whose `value` (and min_max) are f32 / f64
FloatTags == {"AddVarF64", "AddRangedVarF64", "UpdateRangedValueF64"}

\* serde_json::to_string of one message: the externally tagged form
\* {"<Variant>": {<fields>}}.  A float that is not finite is written `null`.
JsonNumber(v) == IF v = NaN THEN "null" ELSE v
to_json(m) ==
    [variant |-> m.kind,
     content |-> IF m.kind \in FloatTags
                 THEN [f \in DOMAIN m \ {"kind"} |->
                          IF f = "value" THEN JsonNumber(m[f]) ELSE m[f]]
                 ELSE [f \in DOMAIN m \ {"kind"} |-> m[f]]]

\* serde_json::from_str of one message: `null` is no f32 / f64
Parses(j) == ~(j.variant \in FloatTags /\ j.content.value = "null")
from_json(j) == [kind |-> j.variant] @@ j.content

\* serde_json::to_string(&collection) / from_str of a Vec of messages
EncodeBatch(batch) == [i \in 1..Len(batch) |-> to_json(batch[i])]
BatchParses(frame) == \A i \in 1..Len(frame) : Parses(frame[i])
DecodeBatch(frame) == [i \in 1..Len(frame) |-> from_json(frame[i])]

\* Manager::new_remote, relay thread: websocket.read_message().unwrap() and
\* serde_json::from_str(..).unwrap().  The read waits for a frame; it fails
\* when the peer is gone.
srv_read ==
    /\ pcS = "read"
    /\ IF ws_to_server # <<>>
       THEN /\ ws_to_server' = Tail(ws_to_server)
            /\ IF BatchParses(Head(ws_to_server))
               THEN pcS' = "forward" /\ srv_pending' = DecodeBatch(Head(ws_to_server))
               ELSE pcS' = "panic" /\ srv_pending' = srv_pending
       ELSE /\ pcR = "panic" \/ pcG = "panic"
            /\ pcS' = "panic"
            /\ UNCHANGED <<ws_to_server, srv_pending>>
    /\ UNCHANGED <<mode, controlVars, guiVars, chanVars, srv_to_gui_chan,
                   srv_from_gui_chan, ws_to_client, pcR, cli_pending, logVars>>

\* for m in from_msg { from_gui_loop_sender.send(m).unwrap() }
srv_forward ==
    /\ pcS = "forward"
    /\ IF srv_pending = <<>>
       THEN pcS' = "write" /\ UNCHANGED <<srv_pending, srv_from_gui_chan>>
       ELSE /\ srv_from_gui_chan' = Send(srv_from_gui_chan, Head(srv_pending))
            /\ srv_pending' = Tail(srv_pending)
            /\ pcS' = pcS
    /\ UNCHANGED <<mode, controlVars, guiVars, chanVars, srv_to_gui_chan,
                   ws_to_server, ws_to_client, pcR, cli_pending, logVars>>

\* to_gui_loop_receiver.try_iter().collect(), write_message, sleep
srv_write ==
    /\ pcS = "write"
    /\ srv_to_gui_chan' = <<>>
    /\ ws_to_client' = Send(ws_to_client, EncodeBatch(srv_to_gui_chan))
    /\ pcS' = "read"
    /\ UNCHANGED <<mode, controlVars, guiVars, chanVars, srv_from_gui_chan,
                   ws_to_server, srv_pending, pcR, cli_pending, logVars>>

\* (cli_write_nothing: what a client tick that sent no frame when nothing
\* was queued would do)
cli_write_nothing ==
    /\ pcR = "write"
    /\ from_gui_chan' = <<>>
    /\ ws_to_server' = IF from_gui_chan = <<>> THEN ws_to_server
                       ELSE Send(ws_to_server, EncodeBatch(from_gui_chan))
    /\ pcR' = "read"
    /\ UNCHANGED <<mode, controlVars, guiVars, to_gui_chan, srv_to_gui_chan,
                   srv_from_gui_chan, ws_to_client, pcS, srv_pending,
                   cli_pending, logVars>>
\* remote_client.rs main, relay thread:
\* from_gui_loop_receiver.try_iter().collect(), write_message
cli_write ==
    /\ pcR = "write"
    /\ from_gui_chan' = <<>>
    /\ ws_to_server' = Send(ws_to_server, EncodeBatch(from_gui_chan))
    /\ pcR' = "read"
    /\ UNCHANGED <<mode, controlVars, guiVars, to_gui_chan, srv_to_gui_chan,
                   srv_from_gui_chan, ws_to_client, pcS, srv_pending,
                   cli_pending, logVars>>

\* (cli_read_retries: what a client relay that dropped a frame it cannot
\* parse and went on with its loop would do)
cli_read_retries ==
    /\ pcR = "read"
    /\ IF ws_to_client # <<>>
       THEN /\ ws_to_client' = Tail(ws_to_client)
            /\ IF BatchParses(Head(ws_to_client))
               THEN pcR' = "forward" /\ cli_pending' = DecodeBatch(Head(ws_to_client))
               ELSE pcR' = "write" /\ cli_pending' = cli_pending
       ELSE /\ pcS = "panic" \/ pcC = "panic"
            /\ pcR' = "panic"
            /\ UNCHANGED <<ws_to_client, cli_pending>>
    /\ UNCHANGED <<mode, controlVars, guiVars, chanVars, srv_to_gui_chan,
                   srv_from_gui_chan, ws_to_server, pcS, srv_pending, logVars>>
\* socket.read_message().expect(..) and serde_json::from_str(..).unwrap()
cli_read ==
    /\ pcR = "read"
    /\ IF ws_to_client # <<>>
       THEN /\ ws_to_client' = Tail(ws_to_client)
            /\ IF BatchParses(Head(ws_to_client))
               THEN pcR' = "forward" /\ cli_pending' = DecodeBatch(Head(ws_to_client))
               ELSE pcR' = "panic" /\ cli_pending' = cli_pending
       ELSE /\ pcS = "panic" \/ pcC = "panic"
            /\ pcR' = "panic"
            /\ UNCHANGED <<ws_to_client, cli_pending>>
    /\ UNCHANGED <<mode, controlVars, guiVars, chanVars, srv_to_gui_chan,
                   srv_from_gui_chan, ws_to_server, pcS, srv_pending, logVars>>

\* for m in to_msg { to_gui_loop_sender.send(m).unwrap() }, then sleep
cli_forward ==
    /\ pcR = "forward"
    /\ IF cli_pending = <<>>
       THEN pcR' = "write" /\ UNCHANGED <<cli_pending, to_gui_chan>>
       ELSE /\ to_gui_chan' = Send(to_gui_chan, Head(cli_pending))
            /\ cli_pending' = Tail(cli_pending)
            /\ pcR' = pcR
    /\ UNCHANGED <<mode, controlVars, guiVars, from_gui_chan, srv_to_gui_chan,
                   srv_from_gui_chan, ws_to_server, ws_to_client, pcS,
                   srv_pending, logVars>>

\* app::spawn runs the control closure on the main thread of the server
\* process in remote mode; the client relay thread lives in the window's
\* process
ServerRuns == pcC # "panic"
ClientRuns == pcG # "panic"

RelayStep ==
    \/ ServerRuns /\ srv_read
    \/ ServerRuns /\ srv_forward
    \/ ServerRuns /\ srv_write
    \/ ClientRuns /\ cli_write
    \/ ClientRuns /\ cli_read
    \/ ClientRuns /\ cli_forward

\* app::spawn(VVizMode::Remote, f) once the client has connected: the server
\* relay waits for the first frame, the client relay is about to send it
InitRemote == mode = "Remote" /\ pcS = "read" /\ pcR = "write" /\ InitCommon

NextRemote == ControlStep \/ GuiStep \/ RelayStep

SpecRemote == InitRemote /\ [][NextRemote]_vars

-----------------------------------------------------------------------------
(* The presentation store under every short run of inbound messages: the
   control side has queued a run, sync_with_gui sends it and GuiLoop::draw
   applies it while the user interacts *)

MaxStoreMsgs == 3
StoreLabels == {"a", "b"}

\* the messages of a run: components a and b, the 3D panels P and R, the
\* panel Q (3D or 2D), entities A and B
StoreMsgs ==
    {AddButtonMsg("a"), AddButtonMsg("b"), DeleteComponentMsg("a"),
     AddWidget3Msg("P"), AddWidget3Msg("Q"), AddWidget3Msg("R"),
     AddWidget2Msg("Q", "image"),
     PlaceEntity3Msg("P", NamedEntity3("A", "cube", "identity")),
     PlaceEntity3Msg("P", NamedEntity3("B", "axes", "p")),
     PlaceEntity3Msg("Q", NamedEntity3("A", "cube", "identity")),
     UpdateScenePoseEntity3Msg("P", "A", "q"),
     UpdateScenePoseEntity3Msg("P", "B", "q")}

StoreRuns == UNION {[1..n -> StoreMsgs] : n \in 0..MaxStoreMsgs}

\* the mirror once the run is queued: UiButton::new has inserted a slot for
\* every AddButton of the run (no other message of a run has a slot)
RECURSIVE MirrorAfter(_, _)
MirrorAfter(map, run) ==
    IF run = <<>> THEN map
    ELSE MirrorAfter(IF Head(run).kind = "AddButton"
                     THEN Insert(map, Head(run).label, Button(FALSE))
                     ELSE map,
                     Tail(run))

\* the state once the control closure has queued a run of `runs`
InitQueued(runs) ==
    /\ mode = "Local" /\ pcS = "none" /\ pcR = "none"
    /\ \E run \in runs :
          /\ components = MirrorAfter([l \in StoreLabels |-> NoComp], run)
          /\ message_queue = [i \in 1..Len(run) |-> Stamp(run[i], i)]
          /\ nEnq = Len(run)
    /\ handles = <<>>
    /\ pcC = "idle"
    /\ ret = NoRet
    /\ to_gui_chan = <<>>
    /\ from_gui_chan = <<>>
    /\ data_components = [l \in StoreLabels |-> NoComp]
    /\ data_widgets = <<>>
    /\ pcG = "drain"
    /\ nEvents = 0
    /\ nEmit = 0
    /\ guiApplied = <<>>
    /\ guiLast = [kind |-> "None"]
    /\ ctlApplied = <<>>
    /\ srv_to_gui_chan = <<>>
    /\ srv_from_gui_chan = <<>>
    /\ ws_to_server = <<>>
    /\ ws_to_client = <<>>
    /\ srv_pending = <<>>
    /\ cli_pending = <<>>

InitStore == InitQueued(StoreRuns)

WidgetLabels == {"P", "Q", "R", "S"}

NextStore ==
    \/ ControlRuns /\ (sync_with_gui \/ sync_send \/ sync_recv)
    \/ GuiStep
    \/ \E w \in WidgetLabels : frame_show_drag(w)

SpecStore == InitStore /\ [][NextStore]_vars

-----------------------------------------------------------------------------
(* One panel under longer runs: the label P is added as a 3D or a 2D panel,
   entities A and B are placed and placed again, A is moved *)

MaxPanelMsgs == 4

PanelMsgs ==
    {AddButtonMsg("a"),
     AddWidget3Msg("P"), AddWidget2Msg("P", "image"),
     PlaceEntity3Msg("P", NamedEntity3("A", "cube", "identity")),
     PlaceEntity3Msg("P", NamedEntity3("A", "axes", "p")),
     PlaceEntity3Msg("P", NamedEntity3("B", "axes", "p")),
     UpdateScenePoseEntity3Msg("P", "A", "q")}

PanelRuns == UNION {[1..n -> PanelMsgs] : n \in 0..MaxPanelMsgs}

InitPanel == InitQueued(PanelRuns)

SpecPanel == InitPanel /\ [][NextStore]_vars

(* A closure that adds enums of two types, Options and Manipulation, reads
   them and syncs, with the window's frames and the user's selections *)

NextEnums ==
    \/ ControlRuns /\ \E l \in Labels, v \in OptionsT \cup ManipulationT : add_enum(l, v)
    \/ ControlRuns /\ \E h \in 1..Len(handles) : get_value(h)
    \/ ControlRuns /\ \E h \in 1..Len(handles) : get_new_value(h)
    \/ ControlRuns /\ (sync_with_gui \/ sync_send \/ sync_recv)
    \/ GuiStep

SpecEnums == Init /\ [][NextEnums]_vars

(* Local mode with a closure that may return: App::spawn runs f(manager) on
   its own thread and the Manager, with the receiving end of the window's
   channel, is dropped when f returns; the window goes on drawing *)

closure_returns ==
    /\ pcC = "idle"
    /\ pcC' = "returned"
    /\ UNCHANGED <<mode, components, message_queue, handles, ret, guiVars,
                   chanVars, relayVars, logVars>>

NextReturn ==
    \/ Next
    \/ ControlRuns /\ closure_returns

SpecReturn == Init /\ [][NextReturn]_vars

(* The closure's calls for components and for widgets together, with the
   window's frames and the user's changes and drags *)

WidgetCall ==
    \/ add_widget2("Q", "image")
    \/ add_widget3("P")
    \/ \E h \in 1..Len(handles) : place_entity(h, "A", "cube")
    \/ \E h \in 1..Len(handles) : place_entity_at(h, "A", "axes", "p")
    \/ \E h \in 1..Len(handles) : update_scene_pose_entity(h, "A", "q")

NextCalls ==
    \/ Next
    \/ ControlRuns /\ WidgetCall
    \/ \E w \in WidgetLabels : frame_show_drag(w)

SpecCalls == Init /\ [][NextCalls]_vars

(* A closure that adds a button and widgets, places and moves entities and
   keeps calling sync_with_gui, each call running on, while the window keeps
   drawing frames and the user presses the button *)

NextDeliver ==
    \/ ControlRuns /\ WidgetCall
    \/ ControlRuns /\ \E l \in Labels : add_button(l)
    \/ ControlRuns /\ (sync_with_gui \/ sync_send \/ sync_recv)
    \/ GuiStep

SpecDeliver ==
    /\ Init /\ [][NextDeliver]_vars
    /\ WF_vars(ControlRuns /\ sync_with_gui)
    /\ WF_vars(ControlRuns /\ (sync_send \/ sync_recv))
    /\ WF_vars(GuiStep)

(* The central panel under every short run that adds up to four widgets of
   different aspect ratios: a 3D panel and a square, a wide and a tall image *)

MaxLayoutMsgs == 4

LayoutMsgs ==
    {AddButtonMsg("a"),
     AddWidget3Msg("P"),
     AddWidget2Msg("Q", "image"),
     AddWidget2Msg("R", "wide"),
     AddWidget2Msg("S", "tall")}

LayoutRuns == UNION {[1..n -> LayoutMsgs] : n \in 0..MaxLayoutMsgs}

InitLayout == InitQueued(LayoutRuns)

SpecLayout == InitLayout /\ [][NextStore]_vars

-----------------------------------------------------------------------------
(* The mirror under every short run of messages from a remote client: the
   server's relay thread has forwarded a run to the Manager's receiver, and
   the control closure adds, reads and syncs *)

MaxMirrorMsgs == 2

\* the messages of a run: label a, which the control closure may add, and
\* label b, which it never adds
MirrorMsgs ==
    {UpdateButtonMsg("a"), UpdateButtonMsg("b"),
     UpdateValueBoolMsg("a", "true"), UpdateValueBoolMsg("b", "true"),
     UpdateEnumStringReprMsg("a", "Bar"),
     UpdateRangedValueMsg("i32", "a", "1")}

MirrorRuns == UNION {[1..n -> MirrorMsgs] : n \in 0..MaxMirrorMsgs}

InitMirror ==
    /\ mode = "Remote" /\ pcS = "read" /\ pcR = "write"
    /\ components = [l \in StoreLabels |-> NoComp]
    /\ message_queue = <<>>
    /\ handles = <<>>
    /\ pcC = "idle"
    /\ ret = NoRet
    /\ to_gui_chan = <<>>
    /\ from_gui_chan = <<>>
    /\ data_components = [l \in StoreLabels |-> NoComp]
    /\ data_widgets = <<>>
    /\ pcG = "drain"
    /\ nEvents = 0
    /\ nEnq = 0
    /\ \E run \in MirrorRuns :
          /\ srv_from_gui_chan = [i \in 1..Len(run) |-> Stamp(run[i], i)]
          /\ nEmit = Len(run)
    /\ guiApplied = <<>>
    /\ guiLast = [kind |-> "None"]
    /\ ctlApplied = <<>>
    /\ srv_to_gui_chan = <<>>
    /\ ws_to_server = <<>>
    /\ ws_to_client = <<>>
    /\ srv_pending = <<>>
    /\ cli_pending = <<>>

NextMirror == ControlStep

SpecMirror == InitMirror /\ [][NextMirror]_vars

-----------------------------------------------------------------------------
(* Properties of the add_* calls *)

AddOps == {"add_button", "add_bool", "add_number", "add_ranged_value", "add_enum"}

\* the step is an add_* call
IsAddStep == Len(handles') = Len(handles) + 1

LastOf(q) == q[Len(q)]

\* the Add message m carries what the mirror entry c holds
Carries(m, c) ==
    CASE m.kind = "AddButton" -> c = Button(FALSE)
      [] m.kind \in {"AddVarBool"} \cup AddVarNumberTags ->
            c = Var(TypeOfTag(m.kind), m.value)
      [] m.kind \in AddRangedVarTags ->
            c = RangedVar(TypeOfTag(m.kind), m.value, m.min_max)
      [] m.kind = "AddEnumStringRepr" -> c = EnumStringRepr(m.value, m.values)
      [] OTHER -> FALSE

\* C1: a get_value / was_pressed through the handle an add_* call returned,
\* made right after that call and before any sync_with_gui, returns the
\* initial value the call was given (false for a button).
C1_ReadAfterAdd ==
    [][(/\ ret.op \in AddOps
        /\ ret'.op \in {"get_value", "was_pressed"}
        /\ ret'.tick # ret.tick
        /\ ret'.h = ret.h)
       => (ret'.some /\ ret'.value = ret.value)]_vars

\* after an add, a sync and an applied user change, the label was added
\* again and its new handle read before the next sync
C1_Witness ==
    /\ Len(handles) = 2
    /\ handles[1].label = handles[2].label
    /\ ret.op \in {"get_value", "was_pressed"}
    /\ ret.h = 2
    /\ ret.some
    /\ Len(ctlApplied) = 1
    /\ Len(message_queue) = 1

\* C2: every add_* call appends exactly one message at the tail of the
\* outbound queue, an Add for the call's label that carries the value (and
\* bounds, or option list) the mirror entry of that label holds after it.
C2_AddEnqueuesOne ==
    [][IsAddStep =>
        /\ Len(message_queue') = Len(message_queue) + 1
        /\ SubSeq(message_queue', 1, Len(message_queue)) = message_queue
        /\ LastOf(message_queue').label = LastOf(handles').label
        /\ Carries(LastOf(message_queue'), components'[LastOf(handles').label])]_vars

\* two adds are queued, a slider with its bounds last
C2_Witness ==
    /\ Len(message_queue) = 2
    /\ message_queue[1].kind # message_queue[2].kind
    /\ message_queue[2].kind \in AddRangedVarTags
    /\ message_queue[2].min_max = components[message_queue[2].label].min_max

-----------------------------------------------------------------------------
(* Properties of sync_with_gui and of the channels *)

\* the seq numbers of the messages in a queue or channel, in order
Seqs(q) == [i \in 1..Len(q) |-> q[i].seq]
UpTo(n) == [i \in 1..n |-> i]

\* the step is sync_with_gui handing one message to its sender
IsSyncSendStep == pcC = "sync_send" /\ Len(message_queue') < Len(message_queue)
\* the step is sync_with_gui applying one inbound message
IsSyncApplyStep == ctlApplied' # ctlApplied
\* the step is sync_with_gui returning
IsSyncReturnStep == pcC = "sync_recv" /\ pcC' = "idle"

\* C3: one sync_with_gui sends the outbound messages in queue order, the
\* whole queue before it applies any inbound message; it applies the inbound
\* messages in arrival order; and when it returns the outbound queue is
\* empty and no inbound message that its last poll could see is left.
C3_SyncOrder ==
    [][/\ IsSyncSendStep =>
            /\ ManagerOut' = Append(ManagerOut, Head(message_queue))
            /\ message_queue' = Tail(message_queue)
            /\ ctlApplied' = ctlApplied
       /\ IsSyncApplyStep =>
            /\ message_queue = <<>>
            /\ ctlApplied' = Append(ctlApplied, Head(ManagerIn).seq)
            /\ ManagerIn' = Tail(ManagerIn)
            /\ pcC' # "panic" => components' = Update(components, Head(ManagerIn))
       /\ IsSyncReturnStep =>
            /\ message_queue = <<>>
            /\ ManagerIn = <<>>
            /\ components' = components]_vars

\* a sync_with_gui that has sent the second add is polling, both user
\* events applied, a third one arriving too late to be seen or not at all
C3_Witness ==
    /\ pcC = "sync_recv"
    /\ ret.op = "sync_with_gui"
    /\ message_queue = <<>>
    /\ nEnq = 2
    /\ Len(to_gui_chan) = 1
    /\ ctlApplied = <<1, 2>>

\* C4: local mode.  The messages GuiLoop::draw has applied, then those in
\* the channel, then those still queued, are the messages the control side
\* created, each once and in creation order; the messages sync_with_gui has
\* applied, then those in the channel, are the messages the shows sent, each
\* once and in sending order.
C4_LocalFifo ==
    /\ guiApplied \o Seqs(to_gui_chan) \o Seqs(message_queue) = UpTo(nEnq)
    /\ ctlApplied \o Seqs(from_gui_chan) = UpTo(nEmit)

\* both directions have delivered two messages
C4_Witness ==
    /\ mode = "Local"
    /\ guiApplied = <<1, 2>>
    /\ ctlApplied = <<1, 2>>

\* the messages of the frames on one direction of the socket, in order
RECURSIVE Flatten(_)
Flatten(frames) ==
    IF frames = <<>> THEN <<>>
    ELSE [i \in 1..Len(Head(frames)) |-> Head(frames)[i].content]
         \o Flatten(Tail(frames))

\* C5: remote mode.  Through the control side's channel, the batched socket
\* frames and the presentation side's channel, the messages of each family
\* are delivered each once and in the order they were created: what has
\* been applied, followed by what is on its way, is what was created.
C5_RemoteFifo ==
    /\ guiApplied \o Seqs(to_gui_chan) \o Seqs(cli_pending)
          \o Seqs(Flatten(ws_to_client)) \o Seqs(srv_to_gui_chan)
          \o Seqs(message_queue) = UpTo(nEnq)
    /\ ctlApplied \o Seqs(srv_from_gui_chan) \o Seqs(srv_pending)
          \o Seqs(Flatten(ws_to_server)) \o Seqs(from_gui_chan) = UpTo(nEmit)

InSync == pcC \in {"sync_send", "sync_recv"}

-----------------------------------------------------------------------------
(* Agreement of the mirror and the store *)

\* the component kinds the user can change: checkbox, slider, enum
Interactive(c) == c.type = "Var<bool>" \/ IsRanged(c) \/ c.type = "EnumStringRepr"

ValueOf(c) == IF HasValue(c) THEN c.value ELSE "no value"

\* the mirror and the store hold the same value under the label
Agree(l) == Interactive(components[l]) =>
                ValueOf(data_components[l]) = ValueOf(components[l])

\* every message created so far has been applied by the side it went to
AllApplied == Len(guiApplied) = nEnq /\ Len(ctlApplied) = nEmit

\* the label was passed to add_* more than once
ReAdded(l) ==
    \E i, j \in 1..Len(handles) : i < j /\ handles[i].label = l /\ handles[j].label = l

\* C7: when the user stops interacting while the control side keeps calling
\* sync_with_gui (it has not stopped in a panic) and the window keeps drawing
\* frames, then from some point on the mirror value of every checkbox,
\* slider and enum label equals the store value.
C7_EventuallyConsistent ==
    <>[](pcC = "panic") \/ <>[](\A l \in Labels : Agree(l))

\* C8: after a label has been added again, no sync_with_gui fails, and once
\* every message created has been applied by its receiving side the mirror
\* and the store hold the same value under that label.
C8_ReAddConverges ==
    \A l \in Labels : ReAdded(l) =>
        /\ ~(ret.op = "sync_with_gui" /\ pcC = "panic")
        /\ AllApplied => Agree(l)

InRange(v, min_max) ==
    v # NaN /\ NumOf(min_max[1]) <= NumOf(v) /\ NumOf(v) <= NumOf(min_max[2])

RangedHandleTypes == {UiRangedVarType(T) : T \in NumberTypes}

\* the handle comes from the last add_* on its label, so that the mirror
\* entry of the label holds the [min, max] that call declared
IsLatest(h) == \A j \in 1..Len(handles) : handles[j].label = handles[h].label => j <= h

\* C9: sliders are added with min <= value <= max (RangedInputs).  What
\* get_value or get_new_value returns through the handle of a slider lies
\* within the [min, max] the slider was declared with, and is the value the
\* mirror holds (the one the last applied value-changed message set).
C9_SliderInBounds ==
    [][(/\ ret'.tick # ret.tick
        /\ ret'.op \in {"get_value", "get_new_value"}
        /\ ret'.some
        /\ handles[ret'.h].type \in RangedHandleTypes
        /\ IsLatest(ret'.h))
       => /\ InRange(ret'.value, components[handles[ret'.h].label].min_max)
          /\ ret'.value = components[handles[ret'.h].label].value]_vars

\* C10: of two consecutive get_new_value calls through the same handle,
\* with no sync_with_gui (so no change of the mirror) between them, the
\* second returns None.
C10_SecondReadNone ==
    [][(/\ ret.op = "get_new_value"
        /\ ret'.op = "get_new_value"
        /\ ret'.tick # ret.tick
        /\ ret'.h = ret.h
        /\ components' = components)
       => (~ret'.some /\ pcC' = "idle")]_vars

-----------------------------------------------------------------------------
(* Properties of the button and enum round trips *)

IsReadStep(op) == ret'.op = op /\ ret'.tick # ret.tick /\ pcC' = "idle"
IsButton(map, l) == map[l].type = "Button"
AppliesUpdate(kind) ==
    IsSyncApplyStep /\ ManagerIn # <<>> /\ Head(ManagerIn).kind = kind

\* C11: once a button is added, a press in the GUI sends UpdateButton; the
\* sync_with_gui that applies it sets the mirror's pressed flag, and nothing
\* else sets it; was_pressed returns the flag and leaves it cleared, so it
\* returns true once per delivered press and false on every call after it
\* until another UpdateButton is applied.
C11_PressOnce ==
    [][/\ \A l \in Labels :
            /\ (nEmit' # nEmit /\ IsButton(data_components, l))
                  => LastOf(from_gui_chan') = Stamp(UpdateButtonMsg(l), nEmit')
            /\ (AppliesUpdate("UpdateButton") /\ IsButton(components, l))
                  => (components'[l] = Button(TRUE) /\ pcC' = pcC)
            /\ (IsButton(components, l) /\ ~components[l].pressed
                 /\ IsButton(components', l) /\ components'[l].pressed)
                  => AppliesUpdate("UpdateButton")
       /\ IsReadStep("was_pressed") =>
            /\ ret'.value = BoolStr(components[handles[ret'.h].label].pressed)
            /\ components'[handles[ret'.h].label] = Button(FALSE)
       /\ (ret.op = "was_pressed" /\ pcC = "idle" /\ IsReadStep("was_pressed"))
            => ret'.value = "false"]_vars

\* was_pressed has returned true for the one press delivered so far
C11_Witness ==
    /\ ret.op = "was_pressed" /\ ret.value = "true" /\ pcC = "idle"
    /\ components["a"] = Button(FALSE)
    /\ nEmit = 1 /\ ctlApplied = <<1>>

IsEnum(map, l) == map[l].type = "EnumStringRepr"

\* C12: once an enum is added, a selection in the GUI of a variant other than
\* the shown one sends UpdateEnumStringRepr with it; the sync_with_gui that
\* applies it stores it in the mirror; get_new_value through an enum handle
\* then returns Some of the variant the mirror names exactly when it differs
\* from the variant the handle holds, and a second get_new_value with no
\* sync in between returns None.
C12_EnumRoundTrip ==
    [][/\ \A l \in Labels :
            /\ (nEmit' # nEmit /\ IsEnum(data_components, l))
                  => /\ data_components'[l].value # data_components[l].value
                     /\ LastOf(from_gui_chan')
                          = Stamp(UpdateEnumStringReprMsg(l, data_components'[l].value),
                                  nEmit')
            /\ (AppliesUpdate("UpdateEnumStringRepr") /\ IsEnum(components, l))
                  => /\ components'[l]
                          = [components[l] EXCEPT !.value = Head(ManagerIn).value]
                     /\ pcC' = pcC
       /\ (/\ ret'.op = "get_new_value" /\ ret'.tick # ret.tick
           /\ handles[ret'.h].type = "UiEnum<Options>"
           /\ IsEnum(components, handles[ret'.h].label))
            => LET v == components[handles[ret'.h].label].value IN
               /\ pcC' = "idle"
               /\ ret'.some = (\E o \in OptionsT :
                                 to_string(o) = v /\ o # handles[ret'.h].cache)
               /\ ret'.some => (to_string(ret'.value) = v
                               /\ handles'[ret'.h].cache = ret'.value)
       /\ (/\ ret.op = "get_new_value" /\ pcC = "idle"
           /\ ret'.op = "get_new_value" /\ ret'.tick # ret.tick
           /\ ret'.h = ret.h /\ handles[ret.h].type = "UiEnum<Options>")
            => (~ret'.some /\ pcC' = "idle")]_vars

\* the enum was added as Foo, the user selected Bar, and get_new_value has
\* returned Some(Bar)
C12_Witness ==
    /\ Len(handles) = 1 /\ handles[1].type = "UiEnum<Options>"
    /\ ret.op = "get_new_value" /\ ret.some /\ ret.value = "Options::Bar"
    /\ handles[1].cache = "Options::Bar"
    /\ components["a"].value = "Bar"
    /\ nEmit = 1 /\ ctlApplied = <<1>>

-----------------------------------------------------------------------------
(* Properties of the handles' stamps *)

\* bool, slider and enum handles
StampedTypes ==
    {"UiVar<bool>", "UiRangedVar<i32>", "UiRangedVar<f64>", "UiEnum<Options>"}
IsValueRead == ret'.op \in {"get_value", "get_new_value"} /\ ret'.tick # ret.tick

\* C19: a get_value or get_new_value through one handle changes the stamp
\* of no other handle and leaves the mirror alone; get_new_value through a
\* bool, slider or enum handle returns Some exactly when the mirror value
\* differs from that handle's own stamp, whatever was read through other
\* handles, and None when called again with no sync in between.
C19_IndependentStamps ==
    [][/\ IsValueRead =>
            /\ components' = components
            /\ Len(handles') = Len(handles)
            /\ \A g \in 1..Len(handles) : g # ret'.h => handles'[g] = handles[g]
       /\ (/\ ret'.op = "get_new_value" /\ ret'.tick # ret.tick
           /\ handles[ret'.h].type \in StampedTypes
           /\ Downcasts(components, handles[ret'.h].label,
                        DowncastTarget(handles[ret'.h].type)))
            => /\ ret'.some = (ReadValue(handles[ret'.h]) # handles[ret'.h].cache)
               /\ ret'.some => ret'.value = ReadValue(handles[ret'.h])
               /\ handles'[ret'.h].cache = ReadValue(handles[ret'.h])
       /\ (/\ ret.op = "get_new_value" /\ pcC = "idle"
           /\ ret'.op = "get_new_value" /\ ret'.tick # ret.tick
           /\ ret'.h = ret.h /\ handles[ret.h].type \in StampedTypes)
            => ~ret'.some]_vars

\* two slider handles on one label, both added with value 1; the user moved
\* the slider, the first handle has read the new value and get_new_value
\* through the second has returned it as well
C19_Witness ==
    /\ Len(handles) = 2
    /\ handles[1].type = "UiRangedVar<i32>" /\ handles[2].type = "UiRangedVar<i32>"
    /\ ctlApplied = <<1>>
    /\ components["a"].value # "1"
    /\ handles[1].cache = components["a"].value
    /\ ret.op = "get_new_value" /\ ret.h = 2 /\ ret.some
    /\ ret.value = components["a"].value

\* C20: get_new_value through a bool, number, slider or enum handle returns
\* Some(v) exactly when the mirror value v is not the handle's stamp, and
\* the stamp is v afterwards; a stamp is the value the handle was added
\* with until a get_value or get_new_value through that handle returns a
\* value, which it then is; so get_new_value right after get_value through
\* the same handle returns None.
C20_StampEdgeTrigger ==
    [][/\ (/\ ret'.op = "get_new_value" /\ ret'.tick # ret.tick
           /\ Downcasts(components, handles[ret'.h].label,
                        DowncastTarget(handles[ret'.h].type)))
            => /\ ret'.some = (ReadValue(handles[ret'.h]) # handles[ret'.h].cache)
               /\ ret'.some => ret'.value = ReadValue(handles[ret'.h])
               /\ handles'[ret'.h].cache = ReadValue(handles[ret'.h])
       /\ IsAddStep => (ret'.op = "add_button"
                        \/ LastOf(handles').cache = ret'.value)
       /\ \A h \in 1..Len(handles) :
            handles'[h].cache # handles[h].cache
              => (IsValueRead /\ ret'.h = h /\ ret'.some
                  /\ handles'[h].cache = ret'.value)
       /\ (/\ ret.op = "get_value" /\ pcC = "idle"
           /\ ret'.op = "get_new_value" /\ ret'.tick # ret.tick
           /\ ret'.h = ret.h)
            => ~ret'.some]_vars

-----------------------------------------------------------------------------
(* Properties of the mirror *)

\* C17: when sync_with_gui applies an inbound message whose label has no
\* mirror slot, the control side panics: the mirror is left as it was (no
\* slot is created) and the call does not go on as if nothing had arrived.
C17_UpdateWithoutSlotFatal ==
    [][(/\ IsSyncApplyStep /\ ManagerIn # <<>>
        /\ components[Head(ManagerIn).label] = NoComp)
         => (pcC' = "panic" /\ components' = components)]_vars

\* sync_with_gui has panicked on the first inbound message while the mirror
\* had no slot at all, and it still has none
C17_Witness ==
    /\ pcC = "panic" /\ ret.op = "sync_with_gui"
    /\ ctlApplied = <<1>>
    /\ \A l \in StoreLabels : components[l] = NoComp

\* C18: a mirror slot, once there, stays; a slot appears only in the step of
\* an add_* call, for the label of the handle that call returns.  Reads,
\* sync_with_gui and the inbound messages it applies create and delete none.
C18_SlotsOnlyGrow ==
    [][\A l \in DOMAIN components :
          /\ components[l] # NoComp => components'[l] # NoComp
          /\ (components[l] = NoComp /\ components'[l] # NoComp)
               => (IsAddStep /\ LastOf(handles').label = l)]_vars

\* a was added, an inbound message was applied and a read made: a keeps its
\* slot and b, named by an inbound message still waiting, has none
C18_Witness ==
    /\ components["a"] # NoComp /\ components["b"] = NoComp
    /\ ctlApplied = <<1>> /\ pcC = "idle"
    /\ ret.op \in {"get_value", "get_new_value", "was_pressed"}
    /\ srv_from_gui_chan = <<>>

-----------------------------------------------------------------------------
(* Properties of the presentation store *)

\* the step of GuiLoop::draw that passes a message of the kind to update_gui
AppliesToGui(kind) ==
    /\ pcG = "drain" /\ to_gui_chan # <<>> /\ Head(to_gui_chan).kind = kind
    /\ guiApplied' # guiApplied

Entities(widgets, w) == LhmGet(widgets, w).entities

\* C13: applying place-entity for A to the 3D panel P leaves A in P as it was
\* placed, and applying update-pose q for A to P after that leaves A in P
\* with pose q and every other field of A, its geometry included, as it was.
C13_PlaceThenUpdatePose ==
    [][LET m == Head(to_gui_chan) IN
       /\ (AppliesToGui("PlaceEntity3") /\ IsWidget3(data_widgets, m.widget_label))
            => /\ IsWidget3(data_widgets', m.widget_label)
               /\ LhmHas(Entities(data_widgets', m.widget_label), m.named_entity.label)
               /\ LhmGet(Entities(data_widgets', m.widget_label), m.named_entity.label)
                    = m.named_entity
       /\ (/\ AppliesToGui("UpdateScenePoseEntity3")
           /\ IsWidget3(data_widgets, m.widget_label)
           /\ LhmHas(Entities(data_widgets, m.widget_label), m.entity_label))
            => /\ IsWidget3(data_widgets', m.widget_label)
               /\ LhmHas(Entities(data_widgets', m.widget_label), m.entity_label)
               /\ LhmGet(Entities(data_widgets', m.widget_label), m.entity_label)
                    = [LhmGet(Entities(data_widgets, m.widget_label), m.entity_label)
                         EXCEPT !.scene_pose_entity = m.scene_pose_entity]]_vars

\* A was placed in P as a cube at the identity and has just been given pose q
C13_Witness ==
    /\ guiLast.kind = "UpdateScenePoseEntity3" /\ guiLast.entity_label = "A"
    /\ IsWidget3(data_widgets, "P")
    /\ LhmHas(Entities(data_widgets, "P"), "A")
    /\ LhmGet(Entities(data_widgets, "P"), "A") = NamedEntity3("A", "cube", "q")

\* C14: applying update-pose for an entity that the existing 3D panel P does
\* not hold does not fail and changes nothing: the widgets (P's entities,
\* their order and poses, its camera pose, every other widget) and the
\* components are as before.
C14_UpdateAbsentEntityNoOp ==
    [][LET m == Head(to_gui_chan) IN
       (/\ AppliesToGui("UpdateScenePoseEntity3")
        /\ IsWidget3(data_widgets, m.widget_label)
        /\ ~LhmHas(Entities(data_widgets, m.widget_label), m.entity_label))
         => /\ pcG' = "drain"
            /\ data_widgets' = data_widgets
            /\ data_components' = data_components]_vars

\* update-pose for A has just been applied to P, which holds only B, after
\* the user moved P's camera
C14_Witness ==
    /\ guiLast = Stamp(UpdateScenePoseEntity3Msg("P", "A", "q"), 3)
    /\ pcG = "drain"
    /\ data_widgets =
         <<[key |-> "P",
            value |-> render(Widget3("dragged",
                        <<[key |-> "B", value |-> NamedEntity3("B", "axes", "p")]>>))]>>

\* C15: applying place-entity whose widget label names no widget, or a widget
\* that is no 3D panel, is fatal to the presentation side: draw panics, no
\* widget is created and nothing else of the store changes.
C15_PlaceWithoutPanelFatal ==
    [][LET m == Head(to_gui_chan) IN
       (AppliesToGui("PlaceEntity3") /\ ~IsWidget3(data_widgets, m.widget_label))
         => /\ pcG' = "panic"
            /\ data_widgets' = data_widgets
            /\ data_components' = data_components]_vars

\* draw has panicked on place-entity for Q, which is a 2D panel
C15_Witness ==
    /\ pcG = "panic"
    /\ guiLast.kind = "PlaceEntity3" /\ guiLast.widget_label = "Q"
    /\ LhmHas(data_widgets, "Q") /\ LhmGet(data_widgets, "Q").type = "Widget2"

\* C16: applying delete-component for a label the store does not hold changes
\* nothing; for a label it holds, exactly that component goes, every other
\* component and every widget stay as they were; neither fails.
C16_DeleteExactlyOne ==
    [][LET m == Head(to_gui_chan) IN
       AppliesToGui("DeleteComponent")
         => /\ pcG' = "drain"
            /\ data_widgets' = data_widgets
            /\ data_components'[m.label] = NoComp
            /\ \A l \in StoreLabels \ {m.label} :
                  data_components'[l] = data_components[l]]_vars

\* component a has just been deleted while component b stays
C16_Witness ==
    /\ guiLast = Stamp(DeleteComponentMsg("a"), 3)
    /\ IsButton(components, "a")
    /\ data_components["a"] = NoComp
    /\ data_components["b"] = Button(FALSE)

-----------------------------------------------------------------------------
(* Properties of the frames' user events *)

\* the message a shown component sends for its value after a change
ChangeMsg(l, c) ==
    CASE c.type = "Button" -> UpdateButtonMsg(l)
      [] c.type = "Var<bool>" -> UpdateValueBoolMsg(l, c.value)
      [] c.type = "RangedVar<i32>" -> UpdateRangedValueMsg("i32", l, c.value)
      [] c.type = "RangedVar<f64>" -> UpdateRangedValueMsg("f64", l, c.value)
      [] c.type = "EnumStringRepr" -> UpdateEnumStringReprMsg(l, c.value)
      [] OTHER -> [kind |-> "None"]

\* C25: a user change of a shown checkbox, slider, enum or button (one event
\* of the frame's show step) puts exactly one message on the channel to the
\* control side, carrying the label and the component's new value; a show
\* step without an event sends nothing, and nothing is ever sent for a
\* numeric label.
C25_OneMessagePerEvent ==
    [][/\ nEvents' # nEvents =>
            \E l \in DOMAIN data_components :
                /\ data_components[l].type
                     \in {"Button", "Var<bool>", "RangedVar<i32>", "RangedVar<f64>",
                          "EnumStringRepr"}
                /\ nEmit' = nEmit + 1
                /\ from_gui_chan'
                     = Append(from_gui_chan,
                              Stamp(ChangeMsg(l, data_components'[l]), nEmit'))
       /\ nEvents' = nEvents =>
            /\ nEmit' = nEmit
            /\ \/ from_gui_chan' = from_gui_chan
               \/ from_gui_chan # <<>> /\ from_gui_chan' = Tail(from_gui_chan)]_vars

\* C26: a frame in which the user drags the pointer over a 3D panel changes
\* the camera pose of one 3D panel and nothing else: every other widget, the
\* panel's entities with their order, poses and geometry, and every
\* component are as before, and nothing is sent to the control side.
C26_DragMovesOneCamera ==
    [][(pcG = "show" /\ nEvents' = nEvents /\ data_widgets' # data_widgets)
         => /\ \E w \in WidgetLabels :
                  /\ IsWidget3(data_widgets, w)
                  /\ data_widgets'
                       = LhmSet(data_widgets, w,
                                [LhmGet(data_widgets, w) EXCEPT
                                    !.camera_pose_scene
                                        = LhmGet(data_widgets', w).camera_pose_scene])
            /\ data_components' = data_components
            /\ from_gui_chan' = from_gui_chan
            /\ nEmit' = nEmit]_vars

-----------------------------------------------------------------------------
(* Properties of a panel's entities *)

Keys(m) == [i \in 1..Len(m) |-> m[i].key]

\* C28: applying place-entity to an existing 3D panel leaves one entity per
\* name; the placed name has the geometry and pose of the message, every
\* other entity is as before; the draw order keeps the place of a name that
\* was there already and puts a new name last.
C28_PlaceKeepsFirstOrder ==
    [][LET m == Head(to_gui_chan) IN
       (AppliesToGui("PlaceEntity3") /\ IsWidget3(data_widgets, m.widget_label))
         => LET E == Entities(data_widgets, m.widget_label)
                F == Entities(data_widgets', m.widget_label)
            IN  /\ \A i, j \in 1..Len(F) : F[i].key = F[j].key => i = j
                /\ LhmHas(F, m.named_entity.label)
                /\ LhmGet(F, m.named_entity.label) = m.named_entity
                /\ \A i \in 1..Len(E) :
                      E[i].key # m.named_entity.label
                        => (LhmHas(F, E[i].key) /\ LhmGet(F, E[i].key) = E[i].value)
                /\ Keys(F) = IF LhmHas(E, m.named_entity.label)
                              THEN Keys(E)
                              ELSE Append(Keys(E), m.named_entity.label)]_vars

\* the step takes an entity out of the 3D panel under w, or the panel itself
LosesEntity(w) ==
    /\ IsWidget3(data_widgets, w)
    /\ \/ ~IsWidget3(data_widgets', w)
       \/ \E i \in 1..Len(Entities(data_widgets, w)) :
             ~LhmHas(Entities(data_widgets', w), Entities(data_widgets, w)[i].key)

FreshAfterAddWidget3 ==
    AppliesToGui("AddWidget3")
      => (/\ IsWidget3(data_widgets', Head(to_gui_chan).label)
          /\ LhmGet(data_widgets', Head(to_gui_chan).label)
               = Widget3(InitialCameraPose, <<>>))

\* C29, as stated: an entity leaves the 3D panel under a label only in the
\* step that applies add-3D-widget for that label, and after that step the
\* panel is a fresh one, with no entities and the default camera pose.
C29_OnlyAddWidget3Removes ==
    [][/\ \A w \in WidgetLabels :
            LosesEntity(w)
              => (AppliesToGui("AddWidget3") /\ Head(to_gui_chan).label = w)
       /\ FreshAfterAddWidget3]_vars

\* C29, amended: an entity leaves the 3D panel under a label only in the
\* step that applies an add-widget message, 3D or 2D, for that label; after
\* add-3D-widget the panel is a fresh one, with no entities and the default
\* camera pose.
C29_OnlyAddWidgetRemoves ==
    [][/\ \A w \in WidgetLabels :
            LosesEntity(w)
              => (/\ AppliesToGui("AddWidget3") \/ AppliesToGui("AddWidget2")
                  /\ Head(to_gui_chan).label = w)
       /\ FreshAfterAddWidget3]_vars

\* add-3D-widget for P has just been applied as the second message of a run
\* of two, to a store that held a panel under P: the panel is fresh
C29_Witness ==
    /\ nEnq = 2 /\ guiLast = Stamp(AddWidget3Msg("P"), 2)
    /\ components["a"] = NoComp
    /\ data_widgets = <<[key |-> "P", value |-> Widget3(InitialCameraPose, <<>>)]>>

------------------------------------------------------------------------------
(* Properties of the central panel's layout *)

\* the median of a sorted sequence of n >= 1 fractions: the middle element
\* for odd n, the mean of the two middle elements for even n
Median(a) ==
    LET n == Len(a)
    IN  IF n % 2 = 1
        THEN a[(n + 1) \div 2]
        ELSE RatMean(a[n \div 2], a[(n \div 2) + 1])

\* C27: whenever a frame lays out a non-empty set of widgets, computing the
\* median aspect ratio does not fail and gives the median of the widgets'
\* aspect ratios: the middle element for an odd number of widgets, the mean
\* of the two middle elements for an even number.
C27_MedianLayout ==
    (pcG = "show" /\ Len(data_widgets) >= 1)
      => /\ ~LayoutPanics(data_widgets)
         /\ RatEq(median_aspect_ratio(data_widgets),
                  Median(aspect_ratios(data_widgets)))

------------------------------------------------------------------------------
(* Properties of the order of one frame *)

\* every 3D panel of the store has been rendered
AllRendered(widgets) ==
    \A i \in 1..Len(widgets) :
        widgets[i].value.type = "Widget3" => widgets[i].value.texture_id = "Some"

\* C24: a frame first applies the pending messages, oldest first, and only
\* while it drains; it leaves the drain only when no message is pending and
\* then renders every widget before anything is shown; components and
\* widgets are shown, user changes emitted and cameras moved only in the show
\* stage, where no message is applied: a message that arrives after the drain
\* has finished stays in the channel until the next frame drains.
C24_FrameOrder ==
    [][/\ guiApplied' # guiApplied
            => /\ pcG = "drain" /\ to_gui_chan # <<>>
               /\ guiApplied' = Append(guiApplied, Head(to_gui_chan).seq)
               /\ to_gui_chan' = Tail(to_gui_chan)
               /\ nEmit' = nEmit /\ nEvents' = nEvents
       /\ (pcG = "drain" /\ pcG' = "show")
            => /\ to_gui_chan = <<>>
               /\ AllRendered(data_widgets')
               /\ guiApplied' = guiApplied /\ nEmit' = nEmit /\ nEvents' = nEvents
       /\ pcG = "show"
            => /\ AllRendered(data_widgets)
               /\ guiApplied' = guiApplied
               /\ data_widgets' # data_widgets => to_gui_chan' = to_gui_chan
               /\ pcG' \in {"show", "drain", "panic"}
       /\ (nEmit' # nEmit \/ nEvents' # nEvents) => pcG = "show"
       /\ guiApplied = [i \in 1..Len(guiApplied) |-> i]]_vars

\* the show stage of a frame that applied one message and rendered the 3D
\* panel P, with a message that arrived after the drain had finished
C24_Witness ==
    /\ pcG = "show"
    /\ guiApplied = <<1>>
    /\ to_gui_chan # <<>>
    /\ IsWidget3(data_widgets, "P") /\ AllRendered(data_widgets)

------------------------------------------------------------------------------
(* Properties of the separation of the two sides *)

\* the step is a step of the control closure: a call, or a step of a running
\* sync_with_gui (which pops the queue, applies an inbound message or moves on)
IsControlSideStep == controlVars' # controlVars \/ ctlApplied' # ctlApplied

\* C30: the two sides affect each other through messages only.  No step of
\* the control closure (add_*, place and update calls, handle reads, the
\* steps of sync_with_gui) changes the presentation store; no step of a frame
\* changes the mirror; and the mirror entry of a label changes only in an
\* add_* call for that label, in was_pressed on a handle of that label
\* (clearing pressed), or while sync_with_gui applies an inbound message for
\* that label.
C30_OnlyThroughMessages ==
    [][/\ IsControlSideStep
            => data_components' = data_components /\ data_widgets' = data_widgets
       /\ (data_components' # data_components \/ data_widgets' # data_widgets
              \/ pcG' # pcG)
            => components' = components /\ handles' = handles
                 /\ message_queue' = message_queue
       /\ \A l \in DOMAIN components :
            components'[l] # components[l]
              => \/ /\ ret'.tick # ret.tick /\ ret'.op \in AddOps
                    /\ handles' = Append(handles, handles'[Len(handles')])
                    /\ handles'[Len(handles')].label = l
                 \/ /\ ret'.tick # ret.tick /\ ret'.op = "was_pressed"
                    /\ handles[ret'.h].label = l
                    /\ components[l].pressed
                    /\ components' = [components EXCEPT ![l].pressed = FALSE]
                 \/ /\ pcC = "sync_recv" /\ ManagerIn # <<>>
                    /\ Head(ManagerIn).label = l
                    /\ ctlApplied' = Append(ctlApplied, Head(ManagerIn).seq)]_vars

\* the 3D panel P holds the entity the closure placed, the user has pressed
\* the button a, and the closure has seen the press in its mirror and
\* cleared it with was_pressed
C30_Witness ==
    /\ IsWidget3(data_widgets, "P") /\ LhmHas(Entities(data_widgets, "P"), "A")
    /\ ret.op = "was_pressed" /\ ret.value = "true"
    /\ components["a"] = Button(FALSE)

------------------------------------------------------------------------------
(* Properties of the wire format *)

\* the batch parses on the other side and parses to an equal batch
RoundTrips(batch) ==
    /\ BatchParses(EncodeBatch(batch))
    /\ DecodeBatch(EncodeBatch(batch)) = batch

\* C23: every batch a relay thread writes to the socket, in either
\* direction, round-trips through JSON: the peer's parse succeeds and
\* yields a batch equal to the one that was collected.
C23_BatchRoundTrip ==
    [][/\ (pcS = "write" /\ pcS' = "read") => RoundTrips(srv_to_gui_chan)
       /\ (pcR = "write" /\ pcR' = "read") => RoundTrips(from_gui_chan)]_vars

------------------------------------------------------------------------------
(* Properties of the two relay threads *)

\* both processes and both relay threads are running
PeersAlive == pcC # "panic" /\ pcG # "panic" /\ pcS # "panic" /\ pcR # "panic"

\* the positions of the two relay threads while both peers are alive: at
\* most one frame is on the socket, the client is about to write or is
\* forwarding only while the server waits for its frame, and the server
\* forwards or writes only while the client waits for the answer
RelayAlternates ==
    PeersAlive =>
        /\ Len(ws_to_server) + Len(ws_to_client) <= 1
        /\ pcR \in {"write", "forward"}
              => pcS = "read" /\ ws_to_server = <<>> /\ ws_to_client = <<>>
        /\ pcS \in {"forward", "write"}
              => pcR = "read" /\ ws_to_server = <<>> /\ ws_to_client = <<>>
        /\ (pcR = "read" /\ pcS = "read")
              => Len(ws_to_server) + Len(ws_to_client) = 1

\* C21: the relay threads alternate strictly.  A client tick sends exactly
\* one frame, which holds the whole queued batch (possibly empty), and then
\* waits for exactly one answer; the server waits for one frame and answers
\* with exactly one frame holding its whole queued batch; and while both
\* peers are alive the two threads are never both waiting for a frame that
\* is not on the socket, so neither waits forever.
C21_RelayAlternation ==
    /\ []RelayAlternates
    /\ [][/\ (pcR = "write" /\ pcR' # pcR)
               => /\ pcR' = "read"
                  /\ ws_to_server' = <<EncodeBatch(from_gui_chan)>>
                  /\ from_gui_chan' = <<>>
          /\ (pcS = "write" /\ pcS' # pcS)
               => /\ pcS' = "read"
                  /\ ws_to_client' = <<EncodeBatch(srv_to_gui_chan)>>
                  /\ srv_to_gui_chan' = <<>>
          /\ ws_to_server' # ws_to_server
               => \/ pcR = "write" /\ pcR' = "read"
                  \/ pcS = "read" /\ ws_to_server' = <<>>
          /\ ws_to_client' # ws_to_client
               => \/ pcS = "write" /\ pcS' = "read"
                  \/ pcR = "read" /\ ws_to_client' = <<>>]_vars

\* the client relay waits for the answer, and the answer on the socket is the
\* server's batch with one message in it
C21_Witness ==
    /\ PeersAlive
    /\ pcR = "read" /\ pcS = "read"
    /\ Len(ws_to_client) = 1 /\ Len(Head(ws_to_client)) = 1
    /\ ctlApplied # <<>>

------------------------------------------------------------------------------
(* Properties of delivery to the presentation side *)

SeqSet(q) == {q[i] : i \in 1..Len(q)}

\* C22: every message an add_*, add_widget*, place_entity, place_entity_at
\* or update_scene_pose_entity call has queued is eventually applied by a
\* frame, unless the window has died or the closure died before a
\* sync_with_gui sent the message; and a message is never applied, nor in the
\* channel, while it is still queued: the queue is emptied by the send loop
\* of sync_with_gui only, so what is queued after the last sync_with_gui
\* stays queued.
C22_QueuedIsAppliedAfterSync ==
    /\ \A n \in 1..(MaxHandles + MaxCalls) :
          (nEnq >= n) ~> \/ n \in SeqSet(guiApplied)
                         \/ pcG = "panic"
                         \/ pcC = "panic" /\ n \in SeqSet(Seqs(message_queue))
    /\ [](SeqSet(Seqs(message_queue))
            \cap (SeqSet(guiApplied) \cup SeqSet(Seqs(to_gui_chan))) = {})
    /\ [][message_queue' # message_queue
            => \/ pcC = "sync_send" /\ message_queue # <<>>
                  /\ message_queue' = Tail(message_queue)
               \/ pcC = "idle" /\ nEnq' = nEnq + 1
                  /\ Len(message_queue') = Len(message_queue) + 1]_vars

\* the three messages of add_widget3, place_entity and
\* update_scene_pose_entity have been applied: P holds A at the updated pose
C22_Witness ==
    /\ guiApplied = <<1, 2, 3>>
    /\ message_queue = <<>>
    /\ IsWidget3(data_widgets, "P")
    /\ Entities(data_widgets, "P") = <<[key |-> "A", value |-> NamedEntity3("A", "cube", "q")]>>

------------------------------------------------------------------------------
(* Properties of render before show *)

\* C38: in every interleaving of the closure's calls and the frames, a panel
\* enters the store or is replaced only by the frame's drain, a texture
\* handle is never taken away again except by replacing the panel, and
\* whenever the frame is at its show stage every 3D panel of the store has
\* its texture handle set, so no show reads an unset handle and the frame
\* does not fail there.
C38_ShownIsRendered ==
    /\ [](pcG = "show" => ~ShowPanics(data_widgets))
    /\ [][/\ Keys(data_widgets') # Keys(data_widgets)
               => pcG = "drain" /\ to_gui_chan # <<>>
                    /\ Head(to_gui_chan).kind \in {"AddWidget2", "AddWidget3"}
          /\ \A w \in WidgetLabels :
               (/\ IsWidget3(data_widgets, w) /\ IsWidget3(data_widgets', w)
                /\ LhmGet(data_widgets, w).texture_id = "Some"
                /\ LhmGet(data_widgets', w).texture_id = "None")
                 => pcG = "drain" /\ to_gui_chan # <<>>
                      /\ Head(to_gui_chan) = [Head(to_gui_chan) EXCEPT
                             !.kind = "AddWidget3", !.label = w]]_vars

\* the show stage of the frame whose drain added the 3D panel P: the render
\* step between the two has set P's texture handle
C38_Witness ==
    /\ pcG = "show"
    /\ guiLast.kind = "AddWidget3" /\ guiLast.label = "P"
    /\ Len(guiApplied) = guiLast.seq
    /\ LhmGet(data_widgets, "P") =
          [Widget3(InitialCameraPose, <<>>) EXCEPT !.texture_id = "Some"]

------------------------------------------------------------------------------
(* Properties of the pressed flag *)

\* C36: presses are coalesced.  Applying a button-pressed message to a
\* mirror entry that is already pressed changes nothing, so any number of
\* presses applied before a was_pressed leave one flag; that was_pressed
\* returns true and clears the flag, and a was_pressed that directly follows
\* a was_pressed returns false.  add_button for the label leaves the entry
\* unpressed whatever it was, so the was_pressed that directly follows a
\* re-add returns false.
C36_PressesCoalesce ==
    [][/\ \A l \in Labels :
            (AppliesUpdate("UpdateButton") /\ Head(ManagerIn).label = l
               /\ IsButton(components, l) /\ components[l].pressed)
              => components' = components /\ pcC' = pcC
       /\ (IsReadStep("was_pressed") /\ components[handles[ret'.h].label].pressed)
            => /\ ret'.value = "true"
               /\ ~components'[handles[ret'.h].label].pressed
       /\ (IsReadStep("was_pressed") /\ ret.op = "was_pressed" /\ ret.value = "true")
            => ret'.value = "false"
       /\ (IsAddStep /\ ret'.op = "add_button")
            => components'[LastOf(handles').label] = Button(FALSE)
       /\ (IsReadStep("was_pressed") /\ ret.op = "add_button")
            => ret'.value = "false"]_vars

\* two presses of the button a have been applied to the mirror by one
\* sync_with_gui that is still running: the mirror holds one pressed flag
C36_Witness ==
    /\ pcC = "sync_recv" /\ ret.op = "sync_with_gui"
    /\ Len(handles) = 1 /\ handles[1].type = "UiButton"
    /\ ctlApplied = <<1, 2>>
    /\ components["a"] = Button(TRUE)

\* the handles g and h are two UiButton handles of one label
SameButton(g, h) ==
    /\ g # h
    /\ handles[g].type = "UiButton" /\ handles[h].type = "UiButton"
    /\ handles[g].label = handles[h].label

\* C37: the pressed flag belongs to the label, not to the handle.  With two
\* UiButton handles of one label, a was_pressed through either returns the
\* one flag of the mirror entry; the read that returns true clears it for
\* both, so a was_pressed through the other handle directly afterwards
\* returns false; and the handles themselves hold no state a read changes.
C37_FlagSharedByHandles ==
    [][IsReadStep("was_pressed") =>
         /\ handles' = handles
         /\ ret'.value = BoolStr(components[handles[ret'.h].label].pressed)
         /\ \A g \in 1..Len(handles) :
              SameButton(g, ret'.h)
                => /\ ~components'[handles[g].label].pressed
                   /\ (ret.op = "was_pressed" /\ ret.h = g /\ ret.value = "true")
                        => ret'.value = "false"]_vars

\* two UiButton handles of the label a exist, the one press delivered was
\* read through the second handle, which returned true, and the flag the
\* first handle would read is cleared
C37_Witness ==
    /\ Len(handles) = 2 /\ SameButton(1, 2)
    /\ nEmit = 1 /\ ctlApplied = <<1>>
    /\ ret.op = "was_pressed" /\ ret.h = 2 /\ ret.value = "true"
    /\ components[handles[1].label] = Button(FALSE)

------------------------------------------------------------------------------
(* Properties of the read-only numbers *)

\* the handle of the latest add_* call is the handle of a number
LatestIsNumber ==
    handles # <<>> /\ LastOf(handles).type \in {"UiVar<i32>", "UiVar<f64>"}

\* C35: while the latest add_* call on a label is add_number(label, v), the
\* mirror entry of the label holds v (which the handle of that call keeps as
\* its cache), every get_value through that handle returns v and every
\* get_new_value through it returns None.
C35_NumberIsConstant ==
    /\ [](LatestIsNumber =>
            /\ HasValue(components[LastOf(handles).label])
            /\ components[LastOf(handles).label].value = LastOf(handles).cache)
    /\ [][(LatestIsNumber /\ ret'.h = Len(handles))
           => /\ IsReadStep("get_value")
                   => ret'.value = LastOf(handles).cache /\ handles' = handles
              /\ IsReadStep("get_new_value")
                   => ~ret'.some /\ handles' = handles]_vars

------------------------------------------------------------------------------
(* Properties of the closed option set of an enum *)

\* the value of the enum entry c is one of the options c was added with
InOptions(c) == c.value \in SeqRange(c.values)

\* C34: in every reachable state the value of every enum in the store is
\* one of the options the store's entry was added with, the value of every
\* enum in the mirror is one of the options the mirror's entry was added
\* with, and so is the value of every enum update in flight towards that
\* mirror entry; and a get_value or get_new_value through an enum handle
\* whose mirror entry is an enum never fails in its parse.
C34_EnumValueInOptions ==
    /\ [](\A l \in Labels :
            /\ IsEnum(data_components, l) => InOptions(data_components[l])
            /\ IsEnum(components, l) => InOptions(components[l])
            /\ \A i \in 1..Len(from_gui_chan) :
                 (from_gui_chan[i].kind = "UpdateEnumStringRepr"
                    /\ from_gui_chan[i].label = l /\ IsEnum(components, l))
                   => from_gui_chan[i].value \in SeqRange(components[l].values))
    /\ [][(/\ ret'.tick # ret.tick /\ ret'.op \in {"get_value", "get_new_value"}
            /\ DowncastTarget(handles[ret'.h].type) = "EnumStringRepr"
            /\ IsEnum(components, handles[ret'.h].label))
           => pcC' # "panic"]_vars

------------------------------------------------------------------------------
(* Properties of a transport failure *)

\* the relay thread takes a frame off its socket in this step
SrvTakesFrame == pcS = "read" /\ Len(ws_to_server') < Len(ws_to_server)
CliTakesFrame == pcR = "read" /\ Len(ws_to_client') < Len(ws_to_client)

\* C31: a relay thread that reads a frame it cannot parse terminates in
\* that step, and a relay thread that has terminated stays terminated: from
\* then on it takes no frame off its socket, writes no frame to it, and
\* moves no message between the socket and the channels of its process.
C31_RelayFailureIsFinal ==
    [][/\ (SrvTakesFrame /\ ~BatchParses(Head(ws_to_server)))
            => pcS' = "panic"
       /\ (CliTakesFrame /\ ~BatchParses(Head(ws_to_client)))
            => pcR' = "panic"
       /\ pcS = "panic"
            => /\ pcS' = "panic"
               /\ Len(ws_to_server') >= Len(ws_to_server)
               /\ Len(ws_to_client') <= Len(ws_to_client)
               /\ Len(srv_to_gui_chan') >= Len(srv_to_gui_chan)
               /\ Len(srv_from_gui_chan') <= Len(srv_from_gui_chan)
               /\ srv_pending' = srv_pending
       /\ pcR = "panic"
            => /\ pcR' = "panic"
               /\ Len(ws_to_client') >= Len(ws_to_client)
               /\ Len(ws_to_server') <= Len(ws_to_server)
               /\ Len(from_gui_chan') >= Len(from_gui_chan)
               /\ Len(to_gui_chan') <= Len(to_gui_chan)
               /\ cli_pending' = cli_pending]_vars

\* the client relay has died on a frame it could not parse, the server
\* relay on the read that followed, and a message the closure had sent
\* before is left in the server's channel, never written to the socket
C31_Witness ==
    /\ pcR = "panic" /\ pcS = "panic" /\ pcC # "panic" /\ pcG # "panic"
    /\ ws_to_client = <<>> /\ ws_to_server = <<>>
    /\ srv_to_gui_chan # <<>>

------------------------------------------------------------------------------
(* Properties of the mirror slot an update is applied to *)

\* C32: the window sends an update only for a component its store holds
\* (the show step), and whatever add_* calls the closure makes, every step
\* of sync_with_gui that applies a message from the window finds under the
\* message's label a mirror entry of the component type the message is
\* for, and sync_with_gui does not fail.
C32_UpdateFindsSlot ==
    [][ctlApplied' # ctlApplied
         => /\ components[Head(ManagerIn).label] # NoComp
            /\ components[Head(ManagerIn).label].type
                  = UpdateTarget(Head(ManagerIn).kind)
            /\ pcC' # "panic"]_vars

------------------------------------------------------------------------------
(* Properties of the panel an entity message is applied to *)

\* the frame's drain applies the message at the head of the channel
DrainApplies == pcG = "drain" /\ guiApplied' # guiApplied

\* C33: the closure adds 3D panels under P and 2D panels under Q and
\* places and moves entities through the handles add_widget3 returned.  In
\* every interleaving with the frames, each place-entity and update-pose
\* message is applied by the drain to a store that holds a 3D panel under
\* the message's widget label, and the drain does not fail on it.
C33_PanelExistsWhenApplied ==
    [][(DrainApplies
          /\ Head(to_gui_chan).kind \in {"PlaceEntity3", "UpdateScenePoseEntity3"})
         => /\ IsWidget3(data_widgets, Head(to_gui_chan).widget_label)
            /\ IsWidget3(data_widgets', Head(to_gui_chan).widget_label)
            /\ pcG' # "panic"]_vars

\* a place-entity message has been applied to the 3D panel P while the
\* store also holds the 2D panel Q
C33_Witness ==
    /\ pcG # "panic"
    /\ guiLast.kind = "PlaceEntity3" /\ guiLast.widget_label = "P"
    /\ LhmHas(data_widgets, "Q") /\ LhmGet(data_widgets, "Q").type = "Widget2"
    /\ IsWidget3(data_widgets, "P")
    /\ LhmHas(Entities(data_widgets, "P"), "A")
    /\ LhmGet(Entities(data_widgets, "P"), "A") = NamedEntity3("A", "axes", "p")

------------------------------------------------------------------------------
(* Properties of the window after the closure has returned *)

\* C39: in local mode, once the control closure has returned and its
\* Manager is dropped, no frame of the window fails, whether the user
\* leaves the components alone or changes a checkbox, slider or enum or
\* presses a button in it.
C39_FramesGoOnAfterReturn ==
    [][pcC = "returned" => pcG' # "panic"]_vars
====
